---- MODULE Spec2Model ----
(***************************************************************************)
(* Task execution pipeline of BSNexus: the task state machine with its     *)
(* dependency cascade and history ledger, the task API handlers, the PM    *)
(* orchestrator loops, the stream broker and the worker consumer.          *)
(***************************************************************************)
EXTENDS Integers, Sequences, FiniteSets, Bags, TLC

(* ---------------------------------------------------------------------- *)
(* Bounds                                                                 *)
(* ---------------------------------------------------------------------- *)

\* no handler runs on a task whose version has reached this value
MaxVersion == 5

\* the cap where a task that started waiting is followed until it is done
MaxDeepVersion == 6

\* the cap where a task is followed through a retry to the end of its second
\* execution
MaxStaleVersion == 8

\* the cap where one transition is applied to rows built in any status
MaxUnitVersion == 2

\* the same cap for the handlers whose steps interleave
MaxConcVersion == 2

\* how often the results loop is handed the same entry of tasks:results
MaxDeliveries == 2

\* the longest tasks:queue or tasks:qa, and the most board events, after
\* which no further failing request is made
MaxStreamLen == 1
MaxBoardLen == 2

\* the cap on versions for the requests made where calls can raise
MaxFaultVersion == 4

(* ---------------------------------------------------------------------- *)
(* Domains                                                                *)
(* ---------------------------------------------------------------------- *)

Tasks == {"t1", "t2", "t3"}

TaskStatus ==
  {"waiting", "ready", "queued", "in_progress", "review", "done", "rejected", "blocked"}

\* Python's None for the optional columns and arguments
None == "None"

\* reasons a caller of the transition endpoint may send
Reasons == {"x"}

\* a request body without expected_version
Absent == 0

\* expected_version values a client may put in a request body
ExpectedVersions == {Absent, 1, 999}

\* the workers that register
Workers == {"w1", "w2"}

\* the streams that have a consumer group
Streams == {"tasks:queue", "tasks:qa", "tasks:results"}

\* no hash worker:{id} in the registry
NoWorker == [exists |-> FALSE, status |-> "", current_task_id |-> "", token |-> "", ttl |-> FALSE]

\* requests that can be in flight at the same time
Requests == {"r1", "r2"}

\* a request that has loaded nothing
IdleSession == [pc |-> "idle", task |-> None, row |-> None]

\* titles a client may send to the update endpoint
Titles == {"A", "B"}

\* dependency graphs built by createTask over the three tasks (a task can
\* only depend on tasks created before it): a join t3 -> {t1, t2} and a
\* fan t2 -> {t1}, t3 -> {t1}
JoinGraph == [t \in Tasks |-> CASE t = "t3" -> {"t1", "t2"} [] OTHER -> {}]

DependencyGraphs ==
  {JoinGraph, [t \in Tasks |-> CASE t = "t1" -> {} [] OTHER -> {"t1"}]}

\* no task depends on another
IndependentGraph == [t \in Tasks |-> {}]

\* t2 waits for t1 and t3 waits for t2
ChainGraph == [t \in Tasks |-> CASE t = "t1" -> {} [] t = "t2" -> {"t1"} [] t = "t3" -> {"t2"}]

(* ---------------------------------------------------------------------- *)
(* State                                                                  *)
(* ---------------------------------------------------------------------- *)

VARIABLES
  tasks,        \* the tasks table: task id -> row
  history,      \* the task_history table, per task in insertion order
  depends_on,   \* the task_dependencies table: task id -> dependency ids
  queue,        \* entries of the stream tasks:queue
  qa,           \* entries of the stream tasks:qa
  board,        \* entries of the stream events:board (a bag: nothing here reads it in order)
  resp,         \* outcome of the last handler run: a response or a logged error
  sess,         \* the database sessions of requests in flight: what each has loaded
  results,      \* entries of the stream tasks:results
  groups,       \* the consumer groups: last delivered entry and pending entries per stream
  registry,     \* the worker registry: worker id -> hash worker:{id}
  tokens,       \* the keys worker:token:{token}: token -> worker id
  batch,        \* the messages the results loop has consumed and not yet processed
  processed,    \* log of the results loop: the message ids it has processed (a bag)
  advanced,     \* log of the results loop: <<message id, version>> of each transition it made
  orch,         \* the PMOrchestrator: its _running flag and where start() and its loops are
  signer        \* a PromptSigner, the envelope at hand, the clock, and what verify and extract_prompt returned

\* the broker, the registry and the orchestrator
pmvars == <<results, groups, registry, tokens, batch, processed, advanced>>

vars == <<tasks, history, depends_on, queue, qa, board, resp, sess, orch, signer, pmvars>>

\* what a transaction reads and writes: the database and the broker
\* no PromptSigner has been constructed
NoSigner == [secret |-> None]

\* PMOrchestrator.__init__: _running is False and start() has not been called;
\* start, scheduling and results hold where start() and its two loops are;
\* entry is the "running" mark of the project in app.state.orchestrators, and
\* paused is the orchestrator that entry held before the present one
NoOrchestrator ==
  [running |-> FALSE, start |-> "idle", scheduling |-> "idle", results |-> "idle",
   entry |-> FALSE,
   paused |-> [running |-> FALSE, start |-> "idle", scheduling |-> "idle",
               results |-> "idle"]]

Store ==
  [tasks |-> tasks, history |-> history, queue |-> queue, qa |-> qa, board |-> board,
   \* TaskStateMachine() as the API and the PM construct it: no git collaborator
   git_ops |-> None]

\* the keyword arguments of transition(); `reason` is a named parameter of
\* transition(), so it is never part of **kwargs
Kwargs(worker_id, reviewer_id) ==
  [worker_id |-> worker_id, reviewer_id |-> reviewer_id, reason |-> None]

NoKwargs == Kwargs(None, None)

(* ---------------------------------------------------------------------- *)
(* Task repository                                                        *)
(* ---------------------------------------------------------------------- *)

get_incomplete_dependency_count(S, t) ==
  Cardinality({d \in depends_on[t] : S.tasks[d].status # "done"})

check_dependencies_met(S, t) == get_incomplete_dependency_count(S, t) = 0

find_waiting_dependents(S, t) ==
  {d \in Tasks : t \in depends_on[d] /\ S.tasks[d].status = "waiting"}

find_blocked_dependents(S, t) ==
  {d \in Tasks : t \in depends_on[d] /\ S.tasks[d].status = "blocked"}

(* ---------------------------------------------------------------------- *)
(* Task state machine                                                     *)
(* ---------------------------------------------------------------------- *)

TRANSITIONS ==
  [s \in {"waiting", "ready", "queued", "in_progress", "review", "done", "rejected"} |->
     CASE s = "waiting"     -> {"ready"}
       [] s = "ready"       -> {"queued"}
       [] s = "queued"      -> {"in_progress"}
       [] s = "in_progress" -> {"review", "rejected"}
       [] s = "review"      -> {"done", "rejected"}
       [] s = "done"        -> {"rejected"}
       [] s = "rejected"    -> {"ready"}]

\* can_transition that also accepts a transition to the status the task has
can_transition_reflexive(from_status, to_status) ==
  LET allowed == IF from_status \in DOMAIN TRANSITIONS THEN TRANSITIONS[from_status] ELSE {}
  IN  to_status \in allowed \cup {from_status}

can_transition(from_status, to_status) ==
  LET allowed == IF from_status \in DOMAIN TRANSITIONS THEN TRANSITIONS[from_status] ELSE {}
  IN  to_status \in allowed

HistoryRow(from_status, to_status, actor, reason) ==
  [from_status |-> from_status, to_status |-> to_status, actor |-> actor, reason |-> reason]

PromotionReason(t) == "All dependencies met (triggered by task " \o t \o ")"

\* variant: promotes every waiting dependent without looking at its other
\* dependencies
promote_dependents_unchecked(S, t) ==
  LET promoted == find_waiting_dependents(S, t)
  IN  [S EXCEPT
         !.tasks = [d \in Tasks |->
                      IF d \in promoted
                      THEN [S.tasks[d] EXCEPT !.status = "ready", !.version = @ + 1]
                      ELSE S.tasks[d]],
         !.history = [d \in Tasks |->
                      IF d \in promoted
                      THEN Append(S.history[d],
                                  HistoryRow("waiting", "ready", "system", PromotionReason(t)))
                      ELSE S.history[d]]]

\* variant: promotes the dependents without a history row
promote_dependents_no_history(S, t) ==
  LET promoted == {d \in find_waiting_dependents(S, t) : check_dependencies_met(S, d)}
  IN  [S EXCEPT
         !.tasks = [d \in Tasks |->
                      IF d \in promoted
                      THEN [S.tasks[d] EXCEPT !.status = "ready", !.version = @ + 1]
                      ELSE S.tasks[d]]]

promote_dependents(S, t) ==
  LET promoted == {d \in find_waiting_dependents(S, t) : check_dependencies_met(S, d)}
  IN  [S EXCEPT
         !.tasks = [d \in Tasks |->
                      IF d \in promoted
                      THEN [S.tasks[d] EXCEPT !.status = "ready", !.version = @ + 1]
                      ELSE S.tasks[d]],
         !.history = [d \in Tasks |->
                      IF d \in promoted
                      THEN Append(S.history[d],
                                  HistoryRow("waiting", "ready", "system", PromotionReason(t)))
                      ELSE S.history[d]]]

on_ready(S, t, kw) == S

on_queued(S, t, kw) ==
  [S EXCEPT !.queue = Append(@, [task_id |-> t,
                                 priority |-> S.tasks[t].priority,
                                 title |-> S.tasks[t].title])]

on_in_progress(S, t, kw) ==
  [S EXCEPT !.tasks[t].worker_id = IF kw.worker_id # None THEN kw.worker_id ELSE @,
            !.tasks[t].started_at = TRUE]

on_review(S, t, kw) ==
  LET S1 == [S EXCEPT !.tasks[t].reviewer_id =
                         IF kw.reviewer_id # None THEN kw.reviewer_id ELSE @]
  IN  [S1 EXCEPT !.qa = Append(@, [task_id |-> t, title |-> S1.tasks[t].title])]

\* the side effect of the transition calls the git collaborator, and the call
\* raises an exception that the handler's `except RuntimeError` lets through.
\* S.git_ops is the state machine's git collaborator: None, or what its call
\* does.  GitOps._run raises RuntimeError when git exits with a status other
\* than 0, and create_subprocess_exec raises an OSError (FileNotFoundError)
\* when there is no git to execute
git_raises(S, t, new_status) ==
  /\ S.git_ops = "OSError"
  /\ \/ new_status = "done" /\ S.tasks[t].branch_name # None
     \/ new_status = "rejected" /\ S.tasks[t].commit_hash # None

\* an exception other than RuntimeError leaves _on_done before the cascade
on_done(S, t, kw) ==
  LET S1 == [S EXCEPT !.tasks[t].completed_at = TRUE]
      S2 == IF S.git_ops = "ok" /\ S.tasks[t].branch_name # None
            THEN [S1 EXCEPT !.tasks[t].commit_hash = "hash"]
            ELSE S1
  IN  IF git_raises(S, t, "done") THEN S2 ELSE promote_dependents(S2, t)

on_rejected(S, t, kw) ==
  LET S1 == [S EXCEPT !.tasks[t].error_message = IF kw.reason # None THEN kw.reason ELSE @]
  IN  IF S.git_ops = "ok" /\ S.tasks[t].commit_hash # None
      THEN [S1 EXCEPT !.tasks[t].commit_hash = None]
      ELSE S1

execute_side_effects(S, t, old_status, new_status, kw) ==
  CASE new_status = "ready"       -> on_ready(S, t, kw)
    [] new_status = "queued"      -> on_queued(S, t, kw)
    [] new_status = "in_progress" -> on_in_progress(S, t, kw)
    [] new_status = "review"      -> on_review(S, t, kw)
    [] new_status = "done"        -> on_done(S, t, kw)
    [] new_status = "rejected"    -> on_rejected(S, t, kw)
    [] OTHER                      -> S

BoardEvent(t, from_status, to_status, actor) ==
  [event |-> "task_transition", task_id |-> t,
   from_status |-> from_status, to_status |-> to_status, actor |-> actor]

publish_board_event(S, ev) == [S EXCEPT !.board = @ (+) SetToBag({ev})]

\* variant: the status is set without the version increment
transition_no_version(S, t, new_status, reason, actor, kw) ==
  LET old_status == S.tasks[t].status IN
  IF ~can_transition(old_status, new_status)
  THEN [ok |-> FALSE, S |-> S]
  ELSE
    LET S1 == [S EXCEPT !.history[t] =
                          Append(@, HistoryRow(old_status, new_status, actor, reason))]
        S2 == [S1 EXCEPT !.tasks[t].status = new_status]
        S3 == execute_side_effects(S2, t, old_status, new_status, kw)
        S4 == publish_board_event(S3, BoardEvent(t, old_status, new_status, actor))
    IN  [ok |-> TRUE, S |-> S4]

\* variant: the board event is published before the transition is validated
transition_publish_first(S, t, new_status, reason, actor, kw) ==
  LET old_status == S.tasks[t].status
      S0 == publish_board_event(S, BoardEvent(t, old_status, new_status, actor))
  IN
  IF ~can_transition(old_status, new_status)
  THEN [ok |-> FALSE, S |-> S0]
  ELSE
    LET S1 == [S0 EXCEPT !.history[t] =
                          Append(@, HistoryRow(old_status, new_status, actor, reason))]
        S2 == [S1 EXCEPT !.tasks[t].status = new_status, !.tasks[t].version = @ + 1]
        S3 == execute_side_effects(S2, t, old_status, new_status, kw)
    IN  [ok |-> TRUE, S |-> S3]

\* transition(): ok = FALSE stands for the ValueError of an invalid transition;
\* S is the store as the call left it
transition(S, t, new_status, reason, actor, kw) ==
  LET old_status == S.tasks[t].status IN
  IF ~can_transition(old_status, new_status)
  THEN [ok |-> FALSE, S |-> S]
  ELSE
    LET S1 == [S EXCEPT !.history[t] =
                          Append(@, HistoryRow(old_status, new_status, actor, reason))]
        S2 == [S1 EXCEPT !.tasks[t].status = new_status, !.tasks[t].version = @ + 1]
        S3 == execute_side_effects(S2, t, old_status, new_status, kw)
        S4 == publish_board_event(S3, BoardEvent(t, old_status, new_status, actor))
    IN  IF git_raises(S2, t, new_status)
        THEN [ok |-> FALSE, S |-> S3]
        ELSE [ok |-> TRUE, S |-> S4]

\* the points of transition() at which a call it awaits can raise: the stream
\* publish or the cascade of the side effect, the board event publish, and
\* the caller's db.commit() after it returned
Faults == {"side_effect", "board_event", "commit"}

\* transition() cut short by an exception at the point fault; S is the store
\* as the exception left it
transition_raising(S, t, new_status, reason, actor, kw, fault) ==
  LET old_status == S.tasks[t].status IN
  IF ~can_transition(old_status, new_status)
  THEN [ok |-> FALSE, S |-> S]
  ELSE
    LET S1 == [S EXCEPT !.history[t] =
                          Append(@, HistoryRow(old_status, new_status, actor, reason))]
        S2 == [S1 EXCEPT !.tasks[t].status = new_status, !.tasks[t].version = @ + 1]
        S3 == execute_side_effects(S2, t, old_status, new_status, kw)
        S4 == publish_board_event(S3, BoardEvent(t, old_status, new_status, actor))
    IN  [ok |-> FALSE,
         S |-> CASE fault = "side_effect" -> S2
                 [] fault = "board_event" -> S3
                 [] OTHER                 -> S4]

(* ---------------------------------------------------------------------- *)
(* Transactions                                                           *)
(* ---------------------------------------------------------------------- *)

\* db.commit(): the rows and the broker entries of S become the state
Commit(S) ==
  /\ tasks' = S.tasks
  /\ history' = S.history
  /\ queue' = S.queue
  /\ qa' = S.qa
  /\ board' = S.board

\* variant: the history rows added in the session survive the rollback
Rollback_keeps_history(S) ==
  /\ UNCHANGED tasks
  /\ history' = S.history
  /\ queue' = S.queue
  /\ qa' = S.qa
  /\ board' = S.board

\* the session is dropped without commit: the rows are rolled back, what
\* was already published to the broker stays
Rollback(S) ==
  /\ UNCHANGED <<tasks, history>>
  /\ queue' = S.queue
  /\ qa' = S.qa
  /\ board' = S.board

(* ---------------------------------------------------------------------- *)
(* Task API                                                               *)
(* ---------------------------------------------------------------------- *)

NewTask(deps) ==
  [status |-> IF deps # {} THEN "waiting" ELSE "ready",
   version |-> 1,
   title |-> "A",
   priority |-> "medium",
   worker_id |-> None,
   reviewer_id |-> None,
   error_message |-> None,
   started_at |-> FALSE,
   completed_at |-> FALSE,
   branch_name |-> None,
   commit_hash |-> None,
   \* the prompt p of the stored dict {"prompt": p}
   worker_prompt |-> "implement",
   qa_prompt |-> "review"]

\* POST /api/tasks/{id}/transition; the TaskTransition schema has the fields
\* new_status, reason and actor, an expected_version in the body is dropped
transition_task_within(cap, t, new_status, reason, expected_version) ==
  /\ tasks[t].version < cap
  /\ LET r == transition(Store, t, new_status, reason, "user", NoKwargs) IN
       IF r.ok
       THEN Commit(r.S) /\ resp' = "ok"
       ELSE Rollback(r.S) /\ resp' = "InvalidTransition"
  /\ UNCHANGED <<depends_on, sess, signer, orch, pmvars>>

\* the handler on tasks below MaxVersion
transition_task(t, new_status, reason, expected_version) ==
  transition_task_within(MaxVersion, t, new_status, reason, expected_version)

\* the handler when a call awaited by transition(), or the commit, raises:
\* the request ends with a 500 and the session closes without commit
transition_task_raising(t, new_status, reason, fault) ==
  /\ tasks[t].version < MaxFaultVersion
  /\ can_transition(tasks[t].status, new_status)
  /\ Len(queue) < MaxStreamLen /\ Len(qa) < MaxStreamLen
  /\ BagCardinality(board) < MaxBoardLen
  /\ LET r == transition_raising(Store, t, new_status, reason, "user", NoKwargs, fault) IN
       Rollback(r.S) /\ resp' = "InternalError"
  /\ UNCHANGED <<depends_on, sess, signer, orch, pmvars>>

\* PATCH /api/tasks/{id}; the TaskUpdate schema has the fields title,
\* description and priority, an expected_version in the body is dropped
update_task(t, title, expected_version) ==
  /\ tasks[t].version < MaxVersion
  /\ IF tasks[t].status \notin {"waiting", "ready"}
     THEN resp' = "NotUpdatable" /\ UNCHANGED tasks
     ELSE resp' = "ok" /\ tasks' = [tasks EXCEPT ![t].title = title]
  /\ UNCHANGED <<history, depends_on, queue, qa, board, sess, signer, orch, pmvars>>

(* ---------------------------------------------------------------------- *)
(* Concurrent requests                                                    *)
(* ---------------------------------------------------------------------- *)

\* The handlers are coroutines: between the SELECT that loads the task and
\* the flush of the UPDATE another request can run.  The Task mapping has
\* no version_id_col, so the UPDATE is  SET <changed columns> WHERE id = ?

\* the flush of a loaded row: the columns the handler changed overwrite the
\* stored row, the other columns are not written
Flush(stored, loaded, changed) ==
  [c \in DOMAIN stored |-> IF changed[c] # loaded[c] THEN changed[c] ELSE stored[c]]

\* transition_task up to the await of the SELECT
transition_task_select(w, t) ==
  /\ sess[w].pc = "idle"
  /\ tasks[t].version < MaxConcVersion
  /\ sess' = [sess EXCEPT ![w] = [pc |-> "loaded", task |-> t, row |-> tasks[t]]]
  /\ UNCHANGED <<tasks, history, depends_on, queue, qa, board, resp, orch, signer, pmvars>>

\* transition_task from the loaded row to the commit
transition_task_apply(w, new_status, reason, expected_version) ==
  /\ sess[w].pc = "loaded"
  /\ LET t == sess[w].task
         loaded == sess[w].row
         r == transition([Store EXCEPT !.tasks[t] = loaded], t, new_status, reason,
                         "user", NoKwargs)
         S == [r.S EXCEPT !.tasks[t] = Flush(tasks[t], loaded, r.S.tasks[t])]
     IN  IF r.ok
         THEN Commit(S) /\ resp' = "ok"
         ELSE Rollback(r.S) /\ resp' = "InvalidTransition"
  /\ sess' = [sess EXCEPT ![w] = IdleSession]
  /\ UNCHANGED <<depends_on, orch, signer, pmvars>>

(* ---------------------------------------------------------------------- *)
(* Stream broker                                                          *)
(* ---------------------------------------------------------------------- *)

Min(a, b) == IF a < b THEN a ELSE b

\* XREADGROUP with id ">": the ids of the entries of `log` after the last
\* one delivered to the group, at most `count` of them
NewEntries(stream, log, count) ==
  [i \in 1..Min(count, Len(log) - groups[stream].last) |-> groups[stream].last + i]

\* the entries `ids` are delivered to `consumer` and become pending
Deliver(g, stream, ids, consumer) ==
  [g EXCEPT ![stream].last = IF ids = <<>> THEN @ ELSE ids[Len(ids)],
            ![stream].pel = @ \cup {[id |-> ids[i], consumer |-> consumer] : i \in 1..Len(ids)}]

\* XACK
acknowledge(g, stream, id) ==
  [g EXCEPT ![stream].pel = {p \in @ : p.id # id}]

\* a decoded field value: Python str, Python bool, or no such key
Str(v) == [t |-> "str", v |-> v]

Missing == [t |-> "none", v |-> ""]

\* consume(): json.loads on the field value, the raw string when it is not
\* JSON.  Of the values published here only true and false are JSON; ids,
\* type names, messages and the empty string are not
ParseField(v) ==
  IF v = None THEN Missing
  ELSE IF v \in {"true", "false"} THEN [t |-> "bool", v |-> v]
  ELSE Str(v)

\* one message as consume() returns it
ParseEntry(data, id) ==
  [task_id       |-> ParseField(data.task_id),
   worker_id     |-> ParseField(data.worker_id),
   type          |-> ParseField(data.type),
   success       |-> ParseField(data.success),
   passed        |-> ParseField(data.passed),
   error_message |-> ParseField(data.error_message),
   feedback      |-> ParseField(data.feedback),
   message_id    |-> id]

\* dict.get(key, default)
Get(value, default) == IF value = Missing THEN default ELSE value

(* ---------------------------------------------------------------------- *)
(* Worker registry                                                        *)
(* ---------------------------------------------------------------------- *)

\* the token that secrets.token_hex returns when w registers
TokenOf(w) == "token-" \o w

Tokens == {TokenOf(w) : w \in Workers}

\* register: hset of the whole mapping, then expire(key, ttl)
register(reg, w) ==
  [reg EXCEPT ![w] = [exists |-> TRUE, status |-> "idle", current_task_id |-> "",
                      token |-> TokenOf(w), ttl |-> TRUE]]

\* the token keys that the registrations behind reg have set
issued_tokens(reg) ==
  [tok \in Tokens |->
     IF \E w \in Workers : reg[w].exists /\ reg[w].token = tok
     THEN CHOOSE w \in Workers : reg[w].exists /\ reg[w].token = tok
     ELSE None]

\* the workers in the order `scan` in which SCAN returns their keys
get_all_workers(reg, scan) == SelectSeq(scan, LAMBDA w : reg[w].exists)

\* hset of two fields: on a key that is absent it creates the hash, with no
\* other field and no expiry
set_busy(reg, w, task_id) ==
  [reg EXCEPT ![w].exists = TRUE, ![w].status = "busy", ![w].current_task_id = task_id]

set_idle(reg, w) ==
  [reg EXCEPT ![w].exists = TRUE, ![w].status = "idle", ![w].current_task_id = ""]

\* heartbeat: expire(key, ttl) when the key exists
heartbeat(reg, w) == IF reg[w].exists THEN [reg EXCEPT ![w].ttl = TRUE] ELSE reg

\* get_worker: the hash, or None when hgetall returns nothing
get_worker(reg, w) == IF reg[w].exists THEN reg[w] ELSE NoWorker

\* resolve_token
resolve_token(tok, token_keys) == token_keys[tok]

\* the orders in which SCAN can return the worker keys
ScanOrders == {<<"w1", "w2">>, <<"w2", "w1">>}

(* ---------------------------------------------------------------------- *)
(* Worker consumer                                                        *)
(* ---------------------------------------------------------------------- *)

\* the entry _process_task adds to tasks:results
ExecutionEntry(task_id, w, outcome) ==
  [task_id       |-> task_id,
   worker_id     |-> w,
   type          |-> "execution",
   success       |-> IF outcome = "success" THEN "true" ELSE "false",
   passed        |-> None,
   output_path   |-> IF outcome = "raise" THEN None ELSE "",
   error_message |-> CASE outcome = "success" -> ""
                       [] outcome = "failure" -> "failed"
                       [] outcome = "raise"   -> "exception",
   feedback      |-> None]

\* the entry _process_qa adds to tasks:results
ReviewEntry(task_id, w, outcome) ==
  [task_id       |-> task_id,
   worker_id     |-> w,
   type          |-> "qa",
   success       |-> None,
   passed        |-> IF outcome = "passed" THEN "true" ELSE "false",
   output_path   |-> None,
   error_message |-> IF outcome = "raise" THEN "exception" ELSE "",
   feedback      |-> IF outcome = "failed" THEN "feedback" ELSE ""]

\* the prompt _process_task and _process_qa hand to the executor: the field
\* `key` of the message, "{}" when the message has no such field, is parsed
\* as JSON, and the "prompt" member of a parsed object is taken, the raw text
\* otherwise.  A text is written [kind, prompt]: {"prompt": p} is
\* ["object", p], {} is ["object", None], and the plain text p is ["text", p]
prompt_from(data, key) ==
  LET prompt_raw == IF key \in DOMAIN data THEN data[key]
                    ELSE [kind |-> "object", prompt |-> None]
  IN  IF prompt_raw.kind = "object" /\ prompt_raw.prompt # None
      THEN [kind |-> "text", prompt |-> prompt_raw.prompt]
      ELSE prompt_raw

\* one iteration of task_loop that finds a message: read it, run the
\* executor, publish the result, acknowledge
task_loop(w, outcome) ==
  /\ groups["tasks:queue"].last < Len(queue)
  /\ LET ids == NewEntries("tasks:queue", queue, 1)
         data == queue[ids[1]]
     IN  /\ results' = Append(results, ExecutionEntry(data.task_id, w, outcome))
         /\ groups' = acknowledge(Deliver(groups, "tasks:queue", ids, w), "tasks:queue", ids[1])
  /\ UNCHANGED <<tasks, history, depends_on, queue, qa, board, resp, sess, signer, orch,
                 registry, tokens, batch, processed, advanced>>

\* one iteration of qa_loop that finds a message
qa_loop(w, outcome) ==
  /\ groups["tasks:qa"].last < Len(qa)
  /\ LET ids == NewEntries("tasks:qa", qa, 1)
         data == qa[ids[1]]
     IN  /\ results' = Append(results, ReviewEntry(data.task_id, w, outcome))
         /\ groups' = acknowledge(Deliver(groups, "tasks:qa", ids, w), "tasks:qa", ids[1])
  /\ UNCHANGED <<tasks, history, depends_on, queue, qa, board, resp, sess, signer, orch,
                 registry, tokens, batch, processed, advanced>>

(* ---------------------------------------------------------------------- *)
(* PM orchestrator                                                        *)
(* ---------------------------------------------------------------------- *)

PRIORITY_ORDER == [critical |-> 0, high |-> 1, medium |-> 2, low |-> 3]

\* the order of the created_at column: the tasks were created t1, t2, t3
CreatedAt == [t \in Tasks |-> CASE t = "t1" -> 1 [] t = "t2" -> 2 [] t = "t3" -> 3]

\* the task rows in the order of ORDER BY created_at ASC
ByCreatedAt == [i \in 1..Cardinality(Tasks) |-> CHOOSE t \in Tasks : CreatedAt[t] = i]

\* list_ready_by_priority without the sort by priority
list_ready_by_created_at(S) ==
  SelectSeq(ByCreatedAt, LAMBDA t : S.tasks[t].status = "ready")

\* the ready rows in creation order, then list.sort by PRIORITY_ORDER, which
\* is stable: the rows of priority 0 in their order, then those of 1, 2, 3
list_ready_by_priority(S) ==
  LET rows == SelectSeq(ByCreatedAt, LAMBDA t : S.tasks[t].status = "ready")
      WithKey(k) == SelectSeq(rows, LAMBDA t : PRIORITY_ORDER[S.tasks[t].priority] = k)
  IN  WithKey(0) \o WithKey(1) \o WithKey(2) \o WithKey(3)

\* the for loop of _scheduling_loop
RECURSIVE queue_tasks(_, _)
queue_tasks(S, ts) ==
  IF ts = <<>> THEN [ok |-> TRUE, S |-> S]
  ELSE LET r == transition(S, Head(ts), "queued", "Scheduled by PM", "pm", NoKwargs)
       IN  IF r.ok THEN queue_tasks(r.S, Tail(ts)) ELSE r

\* one iteration of _scheduling_loop, which leaves the orchestrator as o
scheduling_loop_at(scan, o) ==
  LET ready_tasks == list_ready_by_priority(Store)
      workers == get_all_workers(registry, scan)
      idle_workers == SelectSeq(workers, LAMBDA w : registry[w].status = "idle")
      chosen == SubSeq(ready_tasks, 1, Min(Len(ready_tasks), Len(idle_workers)))
      r == queue_tasks(Store, chosen)
  IN  /\ \A i \in 1..Len(chosen) : tasks[chosen[i]].version < MaxVersion
      /\ IF r.ok
         THEN Commit(r.S) /\ UNCHANGED resp
         ELSE Rollback(r.S) /\ resp' = "InvalidTransition"
      /\ orch' = o
      /\ UNCHANGED <<depends_on, sess, signer, pmvars>>

\* one iteration of _scheduling_loop
scheduling_loop(scan) == scheduling_loop_at(scan, orch)

\* _assign_reviewer that takes the first idle worker, the executor included
assign_reviewer_any_idle(S, reg, t, executor_worker_id, scan) ==
  LET workers == get_all_workers(reg, scan)
      available_reviewers == SelectSeq(workers, LAMBDA w : reg[w].status = "idle")
  IN  IF available_reviewers # <<>>
      THEN LET reviewer == available_reviewers[1]
               r == transition(S, t, "review", "Assigned reviewer", "pm", Kwargs(None, reviewer))
           IN  IF r.ok
               THEN [ok |-> TRUE, S |-> r.S, reg |-> set_busy(reg, reviewer, t)]
               ELSE [ok |-> FALSE, S |-> r.S, reg |-> reg]
      ELSE [ok |-> TRUE, S |-> S, reg |-> reg]

\* _assign_reviewer; reg is the registry as the call leaves it
assign_reviewer(S, reg, t, executor_worker_id, scan) ==
  LET workers == get_all_workers(reg, scan)
      available_reviewers ==
        SelectSeq(workers, LAMBDA w : Str(w) # executor_worker_id /\ reg[w].status = "idle")
  IN  IF available_reviewers # <<>>
      THEN LET reviewer == available_reviewers[1]
               r == transition(S, t, "review", "Assigned reviewer", "pm", Kwargs(None, reviewer))
           IN  IF r.ok
               THEN [ok |-> TRUE, S |-> r.S, reg |-> set_busy(reg, reviewer, t)]
               ELSE [ok |-> FALSE, S |-> r.S, reg |-> reg]
      ELSE [ok |-> TRUE, S |-> S, reg |-> reg]

\* _process_result; ok = FALSE stands for the exception that leaves it
process_result(S, reg, result, scan) ==
  LET task_id == Get(result.task_id, Str(""))
      result_type == Get(result.type, Str("execution"))
      success == (result.success = Str("true"))
      worker_id == Get(result.worker_id, Str(""))
      idle_reg == IF worker_id.v # "" THEN set_idle(reg, worker_id.v) ELSE reg
  IN
  IF task_id.v \notin Tasks THEN [ok |-> TRUE, S |-> S, reg |-> reg]
  ELSE
    LET t == task_id.v IN
    CASE result_type = Str("execution") ->
           IF success
           THEN assign_reviewer(S, reg, t, worker_id, scan)
           ELSE LET error_msg == Get(result.error_message, Str(""))
                    r == transition(S, t, "rejected", "Execution failed: " \o error_msg.v,
                                    "pm", NoKwargs)
                IN  IF r.ok
                    THEN [ok |-> TRUE, S |-> r.S, reg |-> idle_reg]
                    ELSE [ok |-> FALSE, S |-> r.S, reg |-> reg]
      [] result_type = Str("qa") ->
           LET passed == (result.passed = Str("true"))
               feedback == Get(result.feedback, Str(""))
               r == IF passed
                    THEN transition(S, t, "done", "QA passed", "pm", NoKwargs)
                    ELSE transition(S, t, "rejected", "QA failed: " \o feedback.v,
                                    "pm", NoKwargs)
           IN  IF r.ok
               THEN [ok |-> TRUE, S |-> r.S, reg |-> idle_reg]
               ELSE [ok |-> FALSE, S |-> r.S, reg |-> reg]
      [] OTHER -> [ok |-> TRUE, S |-> S, reg |-> reg]

\* _results_loop: the consume call that returns messages, which leaves the
\* orchestrator as o
results_loop_consume_at(o) ==
  /\ batch = <<>>
  /\ groups["tasks:results"].last < Len(results)
  /\ LET ids == NewEntries("tasks:results", results, 10)
     IN  /\ batch' = [i \in 1..Len(ids) |-> ParseEntry(results[ids[i]], ids[i])]
         /\ groups' = Deliver(groups, "tasks:results", ids, "pm-0")
  /\ orch' = o
  /\ UNCHANGED <<tasks, history, depends_on, queue, qa, board, resp, sess, signer,
                 results, registry, tokens, processed, advanced>>

\* _results_loop: the consume call that returns messages
results_loop_consume == results_loop_consume_at(orch)

\* _results_loop: the body of the for loop for the next consumed message, on
\* a task below cap, which leaves the orchestrator as o
results_loop_process_within(cap, scan, o) ==
  /\ batch # <<>>
  /\ LET msg == Head(batch)
         r == process_result(Store, registry, msg, scan)
         t == msg.task_id.v
     IN  /\ t \in Tasks => tasks[t].version < cap
         /\ IF r.ok
            THEN Commit(r.S) /\ resp' = "ok"
            ELSE Rollback(r.S) /\ resp' = "InvalidTransition"
         /\ registry' = r.reg
         /\ UNCHANGED tokens
         /\ groups' = acknowledge(groups, "tasks:results", msg.message_id)
         /\ processed' = processed (+) SetToBag({msg.message_id})
         /\ advanced' = IF r.ok /\ t \in Tasks /\ r.S.tasks[t].version # tasks[t].version
                        THEN advanced \cup {<<msg.message_id, r.S.tasks[t].version>>}
                        ELSE advanced
  /\ batch' = Tail(batch)
  /\ orch' = o
  /\ UNCHANGED <<depends_on, sess, signer, results>>

\* the same on tasks below MaxVersion
results_loop_process_at(scan, o) == results_loop_process_within(MaxVersion, scan, o)

\* _results_loop: the body of the for loop for the next consumed message
results_loop_process(scan) == results_loop_process_at(scan, orch)

\* an iteration of _scheduling_loop in which the transition of the last chosen
\* task, or the commit after the loop, raises: the error is printed and the
\* session closes without commit
scheduling_loop_raising(scan, fault) ==
  LET ready_tasks == list_ready_by_priority(Store)
      workers == get_all_workers(registry, scan)
      idle_workers == SelectSeq(workers, LAMBDA w : registry[w].status = "idle")
      chosen == SubSeq(ready_tasks, 1, Min(Len(ready_tasks), Len(idle_workers)))
  IN  /\ chosen # <<>>
      /\ \A i \in 1..Len(chosen) : tasks[chosen[i]].version < MaxVersion
      /\ Len(queue) < MaxStreamLen /\ BagCardinality(board) < MaxBoardLen
      /\ LET before == queue_tasks(Store, SubSeq(chosen, 1, Len(chosen) - 1))
             r == transition_raising(before.S, chosen[Len(chosen)], "queued",
                                     "Scheduled by PM", "pm", NoKwargs, fault)
         IN  Rollback(r.S) /\ resp' = "InternalError"
      /\ UNCHANGED <<depends_on, sess, signer, orch, pmvars>>

\* at-least-once delivery: an entry of tasks:results that the results loop
\* has processed is handed to it once more
deliver_again(id) ==
  /\ id \in 1..groups["tasks:results"].last
  /\ \A i \in 1..Len(batch) : batch[i].message_id # id
  /\ CopiesIn(id, processed) < MaxDeliveries
  /\ batch' = Append(batch, ParseEntry(results[id], id))
  /\ groups' = [groups EXCEPT !["tasks:results"].pel = @ \cup {[id |-> id, consumer |-> "pm-0"]}]
  /\ UNCHANGED <<tasks, history, depends_on, queue, qa, board, resp, sess, signer, orch,
                 results, registry, tokens, processed, advanced>>

(* ---------------------------------------------------------------------- *)
(* Specification of the task API over the state machine                   *)
(* ---------------------------------------------------------------------- *)

\* the tasks as create_task stores them, empty streams and groups as
\* initialize_streams creates them, no request in flight
InitStore ==
  /\ tasks = [t \in Tasks |-> NewTask(depends_on[t])]
  /\ history = [t \in Tasks |-> <<>>]
  /\ queue = <<>>
  /\ qa = <<>>
  /\ board = EmptyBag
  /\ resp = "none"
  /\ sess = [w \in Requests |-> IdleSession]
  /\ orch = NoOrchestrator
  /\ signer = NoSigner
  /\ results = <<>>
  /\ groups = [s \in Streams |-> [last |-> 0, pel |-> {}]]
  /\ batch = <<>>
  /\ processed = EmptyBag
  /\ advanced = {}

Init ==
  /\ depends_on \in DependencyGraphs
  /\ InitStore
  /\ registry = [w \in Workers |-> NoWorker]
  /\ tokens = issued_tokens(registry)

TransitionTask ==
  \E t \in Tasks, new_status \in TaskStatus, reason \in Reasons, ev \in ExpectedVersions :
    transition_task(t, new_status, reason, ev)

\* the transition handler alone, followed far enough for a dependent to
\* become done
SpecDeep ==
  /\ Init
  /\ [][\E t \in Tasks, new_status \in TaskStatus, reason \in Reasons,
             ev \in ExpectedVersions :
          transition_task_within(MaxDeepVersion, t, new_status, reason, ev)]_vars

\* a task row as the unit tests of the state machine build it: any status,
\* version 1
make_task(status) == [NewTask({}) EXCEPT !.status = status]

\* the state machine on rows in any status, as its unit tests drive it
InitUnit ==
  /\ depends_on \in DependencyGraphs
  /\ tasks \in [Tasks -> {make_task(status) : status \in TaskStatus}]
  /\ history = [t \in Tasks |-> <<>>]
  /\ queue = <<>>
  /\ qa = <<>>
  /\ board = EmptyBag
  /\ resp = "none"
  /\ sess = [w \in Requests |-> IdleSession]
  /\ orch = NoOrchestrator
  /\ signer = NoSigner
  /\ results = <<>>
  /\ groups = [s \in Streams |-> [last |-> 0, pel |-> {}]]
  /\ batch = <<>>
  /\ processed = EmptyBag
  /\ advanced = {}
  /\ registry = [w \in Workers |-> NoWorker]
  /\ tokens = issued_tokens(registry)

SpecUnit ==
  /\ InitUnit
  /\ [][\E t \in Tasks, new_status \in TaskStatus, reason \in Reasons,
             ev \in ExpectedVersions :
          transition_task_within(MaxUnitVersion, t, new_status, reason, ev)]_vars

\* transition(task, new_status, reason, **kw) of a state machine whose git
\* collaborator is `git` (None, or what its call does), on the rows of a
\* session that is not rolled back: the rows are left as the call leaves
\* them, and resp is how the call ends
sm_transition(t, new_status, reason, git, kw) ==
  /\ LET r == transition([Store EXCEPT !.git_ops = git], t, new_status, reason,
                         "user", kw)
     IN  /\ Commit(r.S)
         /\ resp' = IF r.ok THEN "ok"
                    ELSE IF can_transition(tasks[t].status, new_status) THEN "OSError"
                    ELSE "ValueError"
  /\ UNCHANGED <<depends_on, sess, signer, orch, pmvars>>

\* t1 and t2 under execution or review, with and without a branch and a
\* commit, and t3 waiting for both
InitGit ==
  /\ depends_on = JoinGraph
  /\ \E rows \in [{"t1", "t2"} ->
                    {[make_task(status) EXCEPT !.branch_name = b, !.commit_hash = h] :
                       status \in {"in_progress", "review"},
                       b \in {None, "phase/x"}, h \in {None, "hash0"}}] :
       tasks = [t \in Tasks |-> IF t = "t3" THEN NewTask(depends_on[t]) ELSE rows[t]]
  /\ history = [t \in Tasks |-> <<>>]
  /\ queue = <<>>
  /\ qa = <<>>
  /\ board = EmptyBag
  /\ resp = "none"
  /\ sess = [w \in Requests |-> IdleSession]
  /\ orch = NoOrchestrator
  /\ signer = NoSigner
  /\ results = <<>>
  /\ groups = [s \in Streams |-> [last |-> 0, pel |-> {}]]
  /\ batch = <<>>
  /\ processed = EmptyBag
  /\ advanced = {}
  /\ registry = [w \in Workers |-> NoWorker]
  /\ tokens = issued_tokens(registry)

\* the done and rejected transitions of a state machine with a git
\* collaborator that works, fails, or cannot be executed
SpecGit ==
  /\ InitGit
  /\ [][\E t \in Tasks, new_status \in {"done", "rejected"}, reason \in Reasons,
             git \in {"ok", "RuntimeError", "OSError"} :
          sm_transition(t, new_status, reason, git, NoKwargs)]_vars

\* the state machine without git collaborator, called with and without the
\* worker_id and reviewer_id keywords, far enough for a retry
SpecRetry ==
  /\ Init
  /\ [][\E t \in {"t1", "t2"}, new_status \in TaskStatus, reason \in Reasons,
           worker_id \in {None, "w1"}, reviewer_id \in {None, "w2"} :
          /\ tasks[t].version < MaxDeepVersion
          /\ sm_transition(t, new_status, reason, None, Kwargs(worker_id, reviewer_id))]_vars

\* the state machine driven through the transition endpoint
Spec == Init /\ [][TransitionTask]_vars

InitEdit == Init /\ depends_on = JoinGraph

\* the transition endpoint together with the update endpoint
SpecEdit ==
  /\ InitEdit
  /\ [][\/ TransitionTask
        \/ \E t \in Tasks, title \in Titles, ev \in ExpectedVersions :
             update_task(t, title, ev)]_vars

\* transition requests whose handlers interleave at their awaits
SpecConc ==
  /\ InitEdit
  /\ [][\/ \E w \in Requests, t \in Tasks : transition_task_select(w, t)
        \/ \E w \in Requests, new_status \in TaskStatus, reason \in Reasons,
              ev \in ExpectedVersions :
             transition_task_apply(w, new_status, reason, ev)]_vars

\* what the executor does with a task: ExecutionResult(success=True),
\* ExecutionResult(success=False), or an exception
TaskLoop ==
  \E w \in Workers, outcome \in {"success", "failure", "raise"} : task_loop(w, outcome)

\* what the executor does with a review: ReviewResult(passed=True),
\* ReviewResult(passed=False), or an exception
QaLoop ==
  \E w \in Workers, outcome \in {"passed", "failed", "raise"} : qa_loop(w, outcome)

SchedulingLoop == \E scan \in ScanOrders : scheduling_loop(scan)

ResultsLoopProcess == \E scan \in ScanOrders : results_loop_process(scan)

\* the orchestrator is started on the chain with both workers registered
InitPM ==
  /\ depends_on = ChainGraph
  /\ InitStore
  /\ registry = register(register([w \in Workers |-> NoWorker], "w1"), "w2")
  /\ tokens = issued_tokens(registry)

NextPM ==
  \* the manual transitions that hand a queued task to its worker and send
  \* it to review
  \/ \E t \in Tasks, new_status \in {"in_progress", "review"}, reason \in Reasons,
        ev \in ExpectedVersions :
       transition_task(t, new_status, reason, ev)
  \/ TaskLoop
  \/ QaLoop
  \/ SchedulingLoop
  \/ results_loop_consume
  \/ ResultsLoopProcess

\* the orchestrator, the workers and the manual transitions
SpecPM == InitPM /\ [][NextPM]_vars

\* the same with entries of tasks:results delivered more than once
SpecDup ==
  /\ InitPM
  /\ [][\/ NextPM
        \* a rejected task is retried by hand
        \/ \E t \in Tasks, reason \in Reasons, ev \in ExpectedVersions :
             tasks[t].status = "rejected" /\ transition_task(t, "ready", reason, ev)
        \/ \E id \in 1..Len(results) : deliver_again(id)]_vars

\* one task that is queued, started and retried by hand, its worker, and the
\* results loop with entries of tasks:results delivered more than once,
\* followed until the second attempt has been rejected
SpecStale ==
  /\ InitPM
  /\ [][\/ \E new_status \in {"queued", "in_progress", "ready"}, reason \in Reasons,
              ev \in ExpectedVersions :
             transition_task_within(MaxStaleVersion, "t1", new_status, reason, ev)
        \/ \E w \in Workers : task_loop(w, "failure")
        \/ results_loop_consume
        \/ \E scan \in ScanOrders : results_loop_process_within(MaxStaleVersion, scan, orch)
        \/ \E id \in 1..Len(results) : deliver_again(id)]_vars

\* POST /workers/register for a worker that is not in the registry
register_worker(w) ==
  /\ ~registry[w].exists
  /\ registry' = register(registry, w)
  /\ tokens' = [tokens EXCEPT ![TokenOf(w)] = w]
  /\ UNCHANGED <<tasks, history, depends_on, queue, qa, board, resp, sess, signer, orch,
                 results, groups, batch, processed, advanced>>

\* WorkerRegistry.deregister: the token is read from the hash, the hash is
\* deleted, and the token key is deleted when a token was read
deregister(reg, token_keys, w) ==
  LET token == reg[w].token
  IN  [reg |-> [reg EXCEPT ![w] = NoWorker],
       tokens |-> IF token # "" THEN [token_keys EXCEPT ![token] = None] ELSE token_keys]

\* DELETE /workers/{id}
deregister_worker(w) ==
  /\ registry' = deregister(registry, tokens, w).reg
  /\ tokens' = deregister(registry, tokens, w).tokens
  /\ UNCHANGED <<tasks, history, depends_on, queue, qa, board, resp, sess, signer, orch,
                 results, groups, batch, processed, advanced>>

RegisterWorker == \E w \in Workers : register_worker(w)

DeregisterWorker == \E w \in Workers : deregister_worker(w)

\* SpecPM with workers joining and leaving the registry
SpecReg == InitPM /\ [][NextPM \/ RegisterWorker \/ DeregisterWorker]_vars

\* the worker process is killed after XREADGROUP has returned a task message
\* and before _process_task has published or acknowledged anything
task_loop_crash(w) ==
  /\ groups["tasks:queue"].last < Len(queue)
  /\ groups' = Deliver(groups, "tasks:queue", NewEntries("tasks:queue", queue, 1), w)
  /\ UNCHANGED <<tasks, history, depends_on, queue, qa, board, resp, sess, signer, orch,
                 results, registry, tokens, batch, processed, advanced>>

\* the same in qa_loop
qa_loop_crash(w) ==
  /\ groups["tasks:qa"].last < Len(qa)
  /\ groups' = Deliver(groups, "tasks:qa", NewEntries("tasks:qa", qa, 1), w)
  /\ UNCHANGED <<tasks, history, depends_on, queue, qa, board, resp, sess, signer, orch,
                 results, registry, tokens, batch, processed, advanced>>

\* the task of task_loop is cancelled while it awaits the executor (run()
\* cancels the loops when --duration has elapsed): CancelledError is no
\* Exception, so neither xadd runs, and the finally clause acknowledges
task_loop_cancelled(w) ==
  /\ groups["tasks:queue"].last < Len(queue)
  /\ LET ids == NewEntries("tasks:queue", queue, 1)
     IN  groups' = acknowledge(Deliver(groups, "tasks:queue", ids, w), "tasks:queue", ids[1])
  /\ UNCHANGED <<tasks, history, depends_on, queue, qa, board, resp, sess, signer, orch,
                 results, registry, tokens, batch, processed, advanced>>

\* the same in qa_loop
qa_loop_cancelled(w) ==
  /\ groups["tasks:qa"].last < Len(qa)
  /\ LET ids == NewEntries("tasks:qa", qa, 1)
     IN  groups' = acknowledge(Deliver(groups, "tasks:qa", ids, w), "tasks:qa", ids[1])
  /\ UNCHANGED <<tasks, history, depends_on, queue, qa, board, resp, sess, signer, orch,
                 results, registry, tokens, batch, processed, advanced>>

\* the PM process is killed while it holds consumed messages it has not
\* processed; the restarted PM starts with none
results_loop_crash ==
  /\ batch # <<>>
  /\ batch' = <<>>
  /\ UNCHANGED <<tasks, history, depends_on, queue, qa, board, resp, sess, signer, orch,
                 results, groups, registry, tokens, processed, advanced>>

\* the executor ids a result can carry: a worker's id, or the empty string of
\* a worker without one
Executors == Workers \cup {""}

\* a registry entry: absent, idle, or busy with some task
WorkerEntries(w) ==
  LET registered == register([v \in Workers |-> NoWorker], w)
  IN  {NoWorker, registered[w]} \cup {set_busy(registered, w, t)[w] : t \in Tasks}

\* _assign_reviewer called directly, as its unit tests call it
assign_reviewer_call(t, executor, scan) ==
  /\ tasks[t].version < MaxUnitVersion
  /\ LET r == assign_reviewer(Store, registry, t, Str(executor), scan) IN
       /\ IF r.ok
          THEN Commit(r.S) /\ resp' = "ok"
          ELSE Rollback(r.S) /\ resp' = "InvalidTransition"
       /\ registry' = r.reg
       /\ UNCHANGED tokens
  /\ UNCHANGED <<depends_on, sess, signer, orch, results, groups, batch, processed, advanced>>

\* task rows that are queued, in_progress or in review, and a registry in any
\* condition
InitAssign ==
  /\ depends_on = IndependentGraph
  /\ tasks \in [Tasks -> {make_task(status) : status \in {"queued", "in_progress", "review"}}]
  /\ history = [t \in Tasks |-> <<>>]
  /\ queue = <<>>
  /\ qa = <<>>
  /\ board = EmptyBag
  /\ resp = "none"
  /\ sess = [w \in Requests |-> IdleSession]
  /\ orch = NoOrchestrator
  /\ signer = NoSigner
  /\ results = <<>>
  /\ groups = [s \in Streams |-> [last |-> 0, pel |-> {}]]
  /\ batch = <<>>
  /\ processed = EmptyBag
  /\ advanced = {}
  /\ registry \in {reg \in [Workers -> UNION {WorkerEntries(w) : w \in Workers}] :
                     \A w \in Workers : reg[w] \in WorkerEntries(w)}
  /\ tokens = issued_tokens(registry)

\* reviewer assignment on its own
SpecAssign ==
  /\ InitAssign
  /\ [][\E t \in Tasks, executor \in Executors, scan \in ScanOrders :
          assign_reviewer_call(t, executor, scan)]_vars

\* tasks created with any priorities, on any of the graphs, no worker
\* registered yet
InitSched ==
  /\ depends_on \in DependencyGraphs \cup {IndependentGraph}
  /\ \E p \in [Tasks -> {"critical", "high", "medium", "low"}] :
       tasks = [t \in Tasks |-> [NewTask(depends_on[t]) EXCEPT !.priority = p[t]]]
  /\ history = [t \in Tasks |-> <<>>]
  /\ queue = <<>>
  /\ qa = <<>>
  /\ board = EmptyBag
  /\ resp = "none"
  /\ sess = [w \in Requests |-> IdleSession]
  /\ orch = NoOrchestrator
  /\ signer = NoSigner
  /\ results = <<>>
  /\ groups = [s \in Streams |-> [last |-> 0, pel |-> {}]]
  /\ batch = <<>>
  /\ processed = EmptyBag
  /\ advanced = {}
  /\ registry = [w \in Workers |-> NoWorker]
  /\ tokens = issued_tokens(registry)

\* the scheduling loop with workers joining and leaving
SpecSched == InitSched /\ [][SchedulingLoop \/ RegisterWorker \/ DeregisterWorker]_vars

\* scheduling passes with workers that register and stay
SpecPasses == InitSched /\ [][SchedulingLoop \/ RegisterWorker]_vars

\* the orchestrator's two loops and the workers' two loops run for ever, each
\* iteration following the last: every one of them that stays able to take a
\* step takes it
FairPM ==
  /\ WF_vars(TaskLoop)
  /\ WF_vars(QaLoop)
  /\ WF_vars(SchedulingLoop)
  /\ WF_vars(results_loop_consume)
  /\ WF_vars(ResultsLoopProcess)

\* SpecPM with the loops scheduled fairly; manual transitions may or may not
\* happen
SpecLive == SpecPM /\ FairPM

\* the orchestrator and workers that may be stopped by their --duration while
\* they execute
SpecCancel ==
  /\ InitPM
  /\ [][\/ NextPM
        \/ \E w \in Workers : task_loop_cancelled(w)
        \/ \E w \in Workers : qa_loop_cancelled(w)]_vars

\* the loops scheduled fairly, with consumers that may be killed between
\* reading a message and acknowledging it
SpecCrash ==
  /\ InitPM
  /\ [][\/ NextPM
        \/ \E w \in Workers : task_loop_crash(w)
        \/ \E w \in Workers : qa_loop_crash(w)
        \/ results_loop_crash]_vars
  /\ FairPM

\* SpecReg with the loops scheduled fairly
SpecLiveReg == SpecReg /\ FairPM

\* the task API and the scheduling pass when awaited calls and commits can
\* raise; both workers are registered and idle
NextFault ==
  \/ \E t \in Tasks, new_status \in TaskStatus, reason \in Reasons,
        ev \in ExpectedVersions :
       transition_task_within(MaxFaultVersion, t, new_status, reason, ev)
  \/ \E t \in Tasks, new_status \in TaskStatus, reason \in Reasons, fault \in Faults :
       transition_task_raising(t, new_status, reason, fault)
  \/ SchedulingLoop
  \/ \E scan \in ScanOrders, fault \in Faults : scheduling_loop_raising(scan, fault)

SpecFault == InitPM /\ [][NextFault]_vars

(* ---------------------------------------------------------------------- *)
(* The life of a PMOrchestrator: start(), its two loops, stop()           *)
(* ---------------------------------------------------------------------- *)

\* list_by_project(status = waiting, limit = 500): ORDER BY created_at DESC
PromoteLimit == 500

list_waiting(S) ==
  LET n == Cardinality(Tasks)
      newest_first == [i \in 1..n |-> ByCreatedAt[n + 1 - i]]
      waiting == SelectSeq(newest_first, LAMBDA t : S.tasks[t].status = "waiting")
  IN  SubSeq(waiting, 1, Min(Len(waiting), PromoteLimit))

\* variant: the loop of _promote_waiting_tasks without check_dependencies_met
RECURSIVE promote_waiting_unchecked(_, _)
promote_waiting_unchecked(S, ts) ==
  IF ts = <<>>
  THEN [ok |-> TRUE, S |-> S]
  ELSE LET r == transition(S, Head(ts), "ready", "All dependencies met", "system", NoKwargs)
       IN  IF r.ok THEN promote_waiting_unchecked(r.S, Tail(ts)) ELSE r

\* the for loop of _promote_waiting_tasks over the listed rows ts
RECURSIVE promote_waiting(_, _)
promote_waiting(S, ts) ==
  IF ts = <<>>
  THEN [ok |-> TRUE, S |-> S]
  ELSE IF check_dependencies_met(S, Head(ts))
  THEN LET r == transition(S, Head(ts), "ready", "All dependencies met", "system", NoKwargs)
       IN  IF r.ok THEN promote_waiting(r.S, Tail(ts)) ELSE r
  ELSE promote_waiting(S, Tail(ts))

\* start() up to its first await: the flag is set
orchestrator_start ==
  /\ orch.start = "idle"
  /\ orch' = [orch EXCEPT !.running = TRUE, !.start = "promoting"]
  /\ UNCHANGED <<tasks, history, depends_on, queue, qa, board, resp, sess, signer, pmvars>>

\* _promote_waiting_tasks, after which start() gathers the two loops
promote_waiting_tasks ==
  /\ orch.start = "promoting"
  /\ LET r == promote_waiting(Store, list_waiting(Store)) IN
       IF r.ok
       THEN Commit(r.S) /\ UNCHANGED resp
       ELSE Rollback(r.S) /\ resp' = "InvalidTransition"
  /\ orch' = [orch EXCEPT !.start = "gathered", !.scheduling = "check", !.results = "check"]
  /\ UNCHANGED <<depends_on, sess, signer, pmvars>>

\* stop(), called by the pause endpoint on a running orchestrator
orchestrator_stop ==
  /\ orch.start # "idle"
  /\ orch.running
  /\ orch' = [orch EXCEPT !.running = FALSE]
  /\ UNCHANGED <<tasks, history, depends_on, queue, qa, board, resp, sess, signer, pmvars>>

\* variant: a loop condition that does not read the flag
loop_condition_always(loop) ==
  /\ orch[loop] = "check"
  /\ orch' = [orch EXCEPT ![loop] = "body"]
  /\ UNCHANGED <<tasks, history, depends_on, queue, qa, board, resp, sess, signer, pmvars>>

\* `while self._running` of the loop named loop: enter the body or return
loop_condition(loop) ==
  /\ orch[loop] = "check"
  /\ orch' = [orch EXCEPT ![loop] = IF orch.running THEN "body" ELSE "returned"]
  /\ UNCHANGED <<tasks, history, depends_on, queue, qa, board, resp, sess, signer, pmvars>>

\* the body of _scheduling_loop: one pass, then the sleep, then the condition
scheduling_loop_body(scan) ==
  /\ orch.scheduling = "body"
  /\ scheduling_loop_at(scan, [orch EXCEPT !.scheduling = "check"])

\* the body of _results_loop up to the for loop: consume returns messages,
\* or returns none when the block time is over
results_loop_body_consume ==
  /\ orch.results = "body"
  /\ IF groups["tasks:results"].last < Len(results)
     THEN results_loop_consume_at([orch EXCEPT !.results = "for"])
     ELSE /\ orch' = [orch EXCEPT !.results = "check"]
          /\ UNCHANGED <<tasks, history, depends_on, queue, qa, board, resp, sess, signer, pmvars>>

\* the for loop of _results_loop: the next message, and back to the condition
\* after the last one
results_loop_body_process(scan) ==
  /\ orch.results = "for"
  /\ results_loop_process_at(scan, [orch EXCEPT !.results =
                                      IF Len(batch) = 1 THEN "check" ELSE "for"])

\* asyncio.gather returns when both loops have returned, and start() with it
orchestrator_returns ==
  /\ orch.start = "gathered"
  /\ orch.scheduling = "returned" /\ orch.results = "returned"
  /\ orch' = [orch EXCEPT !.start = "returned"]
  /\ UNCHANGED <<tasks, history, depends_on, queue, qa, board, resp, sess, signer, pmvars>>

Loops == {"scheduling", "results"}

LoopCondition == \E loop \in Loops : loop_condition(loop)

SchedulingLoopBody == \E scan \in ScanOrders : scheduling_loop_body(scan)

ResultsLoopBodyProcess == \E scan \in ScanOrders : results_loop_body_process(scan)

\* the history of a task that was driven through the API to done
DoneHistory ==
  <<HistoryRow("ready", "queued", "user", "x"),
    HistoryRow("queued", "in_progress", "user", "x"),
    HistoryRow("in_progress", "review", "user", "x"),
    HistoryRow("review", "done", "user", "x")>>

DoneTask ==
  [NewTask({}) EXCEPT !.status = "done", !.version = 5,
                      !.started_at = TRUE, !.completed_at = TRUE]

\* the project when its orchestrator is created: each task without
\* dependencies is new or was completed before its dependents were created,
\* the dependents are as create_task made them; both workers are registered
InitOrch ==
  /\ depends_on \in DependencyGraphs \cup {ChainGraph}
  /\ \E completed \in SUBSET {t \in Tasks : depends_on[t] = {}} :
       /\ tasks = [t \in Tasks |-> IF t \in completed THEN DoneTask
                                   ELSE NewTask(depends_on[t])]
       /\ history = [t \in Tasks |-> IF t \in completed THEN DoneHistory ELSE <<>>]
  /\ queue = <<>>
  /\ qa = <<>>
  /\ board = EmptyBag
  /\ resp = "none"
  /\ sess = [r \in Requests |-> IdleSession]
  /\ orch = NoOrchestrator
  /\ signer = NoSigner
  /\ results = <<>>
  /\ groups = [s \in Streams |-> [last |-> 0, pel |-> {}]]
  /\ registry = register(register([w \in Workers |-> NoWorker], "w1"), "w2")
  /\ tokens = issued_tokens(registry)
  /\ batch = <<>>
  /\ processed = EmptyBag
  /\ advanced = {}

NextOrch ==
  \/ orchestrator_start
  \/ promote_waiting_tasks
  \/ orchestrator_stop
  \/ LoopCondition
  \/ SchedulingLoopBody
  \/ results_loop_body_consume
  \/ ResultsLoopBodyProcess
  \/ orchestrator_returns
  \/ TaskLoop

\* every awaited call of start() and of the loops returns: the consume call
\* blocks for 5 s at most and the sleep takes 5 s
FairOrch ==
  /\ WF_vars(promote_waiting_tasks)
  /\ WF_vars(LoopCondition)
  /\ WF_vars(SchedulingLoopBody)
  /\ WF_vars(results_loop_body_consume)
  /\ WF_vars(ResultsLoopBodyProcess)
  /\ WF_vars(orchestrator_returns)

SpecOrch == InitOrch /\ [][NextOrch]_vars /\ FairOrch

\* POST /{project_id}/start: a conflict while the project is marked running,
\* else a new orchestrator whose start() runs as a task up to its first await;
\* the orchestrator it replaces keeps running where it is. Two orchestrators
\* are followed: a third is started once the loops of the first have returned
start_orchestration ==
  /\ IF orch.entry
     THEN resp' = "409" /\ UNCHANGED orch
     ELSE /\ \/ orch.paused.start = "idle"
             \/ orch.paused.scheduling = "returned" /\ orch.paused.results = "returned"
          /\ resp' = "started"
          /\ orch' = [running |-> TRUE, start |-> "promoting", scheduling |-> "idle",
                      results |-> "idle", entry |-> TRUE,
                      paused |-> [running |-> orch.running, start |-> orch.start,
                                  scheduling |-> orch.scheduling,
                                  results |-> orch.results]]
  /\ UNCHANGED <<tasks, history, depends_on, queue, qa, board, sess, signer, pmvars>>

\* POST /{project_id}/pause: stop() on the orchestrator of the entry, and the
\* entry is marked not running
pause_orchestration ==
  /\ IF orch.entry
     THEN resp' = "paused" /\ orch' = [orch EXCEPT !.running = FALSE, !.entry = FALSE]
     ELSE resp' = "404" /\ UNCHANGED orch
  /\ UNCHANGED <<tasks, history, depends_on, queue, qa, board, sess, signer, pmvars>>

\* start() of the replaced orchestrator: _promote_waiting_tasks, then gather
paused_promote_waiting_tasks ==
  /\ orch.paused.start = "promoting"
  /\ LET r == promote_waiting(Store, list_waiting(Store)) IN
       IF r.ok
       THEN Commit(r.S) /\ UNCHANGED resp
       ELSE Rollback(r.S) /\ resp' = "InvalidTransition"
  /\ orch' = [orch EXCEPT !.paused.start = "gathered", !.paused.scheduling = "check",
                          !.paused.results = "check"]
  /\ UNCHANGED <<depends_on, sess, signer, pmvars>>

\* `while self._running` of a loop of the replaced orchestrator
paused_loop_condition(loop) ==
  /\ orch.paused[loop] = "check"
  /\ orch' = [orch EXCEPT !.paused[loop] =
                            IF orch.paused.running THEN "body" ELSE "returned"]
  /\ UNCHANGED <<tasks, history, depends_on, queue, qa, board, resp, sess, signer, pmvars>>

\* the body of _scheduling_loop of the replaced orchestrator
paused_scheduling_loop_body(scan) ==
  /\ orch.paused.scheduling = "body"
  /\ scheduling_loop_at(scan, [orch EXCEPT !.paused.scheduling = "check"])

\* the consume call of _results_loop of the replaced orchestrator returns
paused_results_loop_body_consume ==
  /\ orch.paused.results = "body"
  /\ IF groups["tasks:results"].last < Len(results)
     THEN results_loop_consume_at([orch EXCEPT !.paused.results = "for"])
     ELSE /\ orch' = [orch EXCEPT !.paused.results = "check"]
          /\ UNCHANGED <<tasks, history, depends_on, queue, qa, board, resp, sess, signer, pmvars>>

\* the for loop of _results_loop of the replaced orchestrator
paused_results_loop_body_process(scan) ==
  /\ orch.paused.results = "for"
  /\ results_loop_process_at(scan, [orch EXCEPT !.paused.results =
                                      IF Len(batch) = 1 THEN "check" ELSE "for"])

\* a project whose tasks form the chain, before its first start
InitPause == InitOrch /\ depends_on = ChainGraph

\* the project's orchestrators under the start and pause endpoints
SpecPause ==
  InitPause /\ [][ \/ start_orchestration
                   \/ pause_orchestration
                   \/ promote_waiting_tasks
                   \/ LoopCondition
                   \/ SchedulingLoopBody
                   \/ results_loop_body_consume
                   \/ ResultsLoopBodyProcess
                   \/ orchestrator_returns
                   \/ TaskLoop
                   \/ paused_promote_waiting_tasks
                   \/ \E loop \in Loops : paused_loop_condition(loop)
                   \/ \E scan \in ScanOrders : paused_scheduling_loop_body(scan)
                   \/ paused_results_loop_body_consume
                   \/ \E scan \in ScanOrders : paused_results_loop_body_process(scan) ]_vars

(* ---------------------------------------------------------------------- *)
(* PromptSigner                                                           *)
(* ---------------------------------------------------------------------- *)

\* the last second of the clock
MaxTime == 2

Times == 0..MaxTime
Secrets == {"k1", "k2"}
Prompts == {"p", "q"}
Nonces == {"n1", "n2"}

\* a timestamp field that holds no number (a string, null)
NotANumber == -1

\* the max_age arguments verify is called with, and its default
MaxAges == {0, 1}
DefaultMaxAge == 3600

EnvelopeFields == {"prompt", "signature", "nonce", "timestamp"}

\* hmac.new(secret, json.dumps({nonce, prompt, timestamp}, sort_keys=True),
\* sha256).hexdigest(): the dump is one-to-one on the three values and the
\* MAC is taken to be free of collisions, so the digest stands for its inputs
HMAC(secret, prompt, nonce, timestamp) ==
  [key |-> secret, prompt |-> prompt, nonce |-> nonce, timestamp |-> timestamp]

\* a signature that is the digest of nothing the signers compute
Garbage == HMAC("", "", "", 0)

\* PromptSigner.sign with uuid4() = nonce and int(time.time()) = now
sign(secret, prompt, nonce, now) ==
  [present |-> EnvelopeFields, prompt |-> prompt,
   signature |-> HMAC(secret, prompt, nonce, now), nonce |-> nonce, timestamp |-> now]

\* variant: verify without the upper bound on the age
verify_any_age(secret, signed_prompt, now, max_age) ==
  IF ~(EnvelopeFields \subseteq signed_prompt.present)
  THEN "False"
  ELSE IF signed_prompt.timestamp = NotANumber
  THEN "TypeError"
  ELSE LET age == now - signed_prompt.timestamp IN
       IF age < 0
       THEN "False"
       ELSE IF HMAC(secret, signed_prompt.prompt, signed_prompt.nonce,
                    signed_prompt.timestamp) = signed_prompt.signature
       THEN "True"
       ELSE "False"

\* PromptSigner.verify at the time now: "True", "False", or the TypeError of
\* the subtraction
verify(secret, signed_prompt, now, max_age) ==
  IF ~(EnvelopeFields \subseteq signed_prompt.present)
  THEN "False"
  ELSE IF signed_prompt.timestamp = NotANumber
  THEN "TypeError"
  ELSE LET age == now - signed_prompt.timestamp IN
       IF age > max_age \/ age < 0
       THEN "False"
       ELSE IF HMAC(secret, signed_prompt.prompt, signed_prompt.nonce,
                    signed_prompt.timestamp) = signed_prompt.signature
       THEN "True"
       ELSE "False"

\* PromptSigner.extract_prompt: the prompt, None, or the TypeError of verify
extract_prompt(secret, signed_prompt, now) ==
  LET v == verify(secret, signed_prompt, now, DefaultMaxAge)
  IN  CASE v = "True"  -> signed_prompt.prompt
        [] v = "False" -> None
        [] OTHER       -> "TypeError"

\* the values a stream entry can carry under a key of the envelope
FieldValues(field) ==
  CASE field = "prompt"    -> Prompts
    [] field = "nonce"     -> Nonces
    [] field = "timestamp" -> Times \cup {NotANumber}
    [] OTHER               -> {Garbage} \cup {HMAC(k, p, n, ts) : k \in Secrets, p \in Prompts,
                                                                n \in Nonces, ts \in Times}

\* a signer signs a prompt now; the envelope is the one at hand
signer_sign(secret, prompt, nonce) ==
  /\ signer' = [signer EXCEPT !.env = sign(secret, prompt, nonce, signer.now),
                              !.verdict = "none", !.extracted = "none"]
  /\ UNCHANGED <<tasks, history, depends_on, queue, qa, board, resp, sess, orch, pmvars>>

\* the envelope at hand with another value under one key
signer_alter(field, value) ==
  /\ field \in signer.env.present
  /\ signer.env[field] # value
  /\ signer' = [signer EXCEPT !.env[field] = value, !.verdict = "none", !.extracted = "none"]
  /\ UNCHANGED <<tasks, history, depends_on, queue, qa, board, resp, sess, orch, pmvars>>

\* the envelope at hand without one of its keys
signer_drop(field) ==
  /\ field \in signer.env.present
  /\ signer' = [signer EXCEPT !.env.present = @ \ {field},
                              !.verdict = "none", !.extracted = "none"]
  /\ UNCHANGED <<tasks, history, depends_on, queue, qa, board, resp, sess, orch, pmvars>>

\* a second passes
signer_tick ==
  /\ signer.now < MaxTime
  /\ signer' = [signer EXCEPT !.now = @ + 1, !.verdict = "none", !.extracted = "none"]
  /\ UNCHANGED <<tasks, history, depends_on, queue, qa, board, resp, sess, orch, pmvars>>

\* the verifier calls verify on the envelope at hand
signer_verify(max_age) ==
  /\ signer' = [signer EXCEPT !.max_age = max_age,
                              !.verdict = verify(signer.secret, signer.env, signer.now, max_age)]
  /\ UNCHANGED <<tasks, history, depends_on, queue, qa, board, resp, sess, orch, pmvars>>

\* the verifier calls extract_prompt on the envelope at hand
signer_extract_prompt ==
  /\ signer' = [signer EXCEPT !.extracted = extract_prompt(signer.secret, signer.env, signer.now)]
  /\ UNCHANGED <<tasks, history, depends_on, queue, qa, board, resp, sess, orch, pmvars>>

\* a verifier with its secret, and an envelope that some signer has just made
InitSigner ==
  /\ depends_on = IndependentGraph
  /\ tasks = [t \in Tasks |-> NewTask({})]
  /\ history = [t \in Tasks |-> <<>>]
  /\ queue = <<>>
  /\ qa = <<>>
  /\ board = EmptyBag
  /\ resp = "none"
  /\ sess = [r \in Requests |-> IdleSession]
  /\ orch = NoOrchestrator
  /\ results = <<>>
  /\ groups = [s \in Streams |-> [last |-> 0, pel |-> {}]]
  /\ registry = [w \in Workers |-> NoWorker]
  /\ tokens = issued_tokens(registry)
  /\ batch = <<>>
  /\ processed = EmptyBag
  /\ advanced = {}
  /\ \E secret, key \in Secrets, prompt \in Prompts, nonce \in Nonces :
       signer = [secret |-> secret, env |-> sign(key, prompt, nonce, 0), now |-> 0,
                 max_age |-> 0, verdict |-> "none", extracted |-> "none"]

NextSigner ==
  \/ \E secret \in Secrets, prompt \in Prompts, nonce \in Nonces : signer_sign(secret, prompt, nonce)
  \/ \E field \in EnvelopeFields : \E value \in FieldValues(field) : signer_alter(field, value)
  \/ \E field \in EnvelopeFields : signer_drop(field)
  \/ signer_tick
  \/ \E max_age \in MaxAges : signer_verify(max_age)
  \/ signer_extract_prompt

SpecSigner == InitSigner /\ [][NextSigner]_vars

\* the envelopes written to the streams: one as a signer made it, one with a
\* signature no signer computes, one without its nonce, one whose timestamp
\* is no number
StreamEnvelopes ==
  LET signed == sign("k1", "p", "n1", 0)
  IN  {signed,
       [signed EXCEPT !.signature = Garbage],
       [signed EXCEPT !.present = @ \ {"nonce"}],
       [signed EXCEPT !.timestamp = NotANumber]}

\* an entry with a signed prompt envelope is on tasks:queue
publish_signed_task(t, signed_prompt) ==
  /\ Len(queue) < MaxStreamLen
  /\ queue' = Append(queue, [task_id |-> t, priority |-> tasks[t].priority,
                           title |-> tasks[t].title,
                           signed_worker_prompt |-> signed_prompt])
  /\ UNCHANGED <<tasks, history, depends_on, qa, board, resp, sess, signer, orch, pmvars>>

\* an entry with a signed prompt envelope is on tasks:qa
publish_signed_qa(t, signed_prompt) ==
  /\ Len(qa) < MaxStreamLen
  /\ qa' = Append(qa, [task_id |-> t, title |-> tasks[t].title,
                     signed_qa_prompt |-> signed_prompt])
  /\ UNCHANGED <<tasks, history, depends_on, queue, board, resp, sess, signer, orch, pmvars>>

\* the workers on streams whose entries carry signed prompt envelopes
NextSigned ==
  \/ \E t \in Tasks, signed_prompt \in StreamEnvelopes : publish_signed_task(t, signed_prompt)
  \/ \E t \in Tasks, signed_prompt \in StreamEnvelopes : publish_signed_qa(t, signed_prompt)
  \/ TaskLoop
  \/ QaLoop

SpecSigned == InitPM /\ [][NextSigned]_vars

(* ---------------------------------------------------------------------- *)
(* The registry under its own operations and the expiry of its keys       *)
(* ---------------------------------------------------------------------- *)

\* POST /workers/{id}/heartbeat
worker_heartbeat(w) ==
  /\ registry[w].exists
  /\ registry' = heartbeat(registry, w)
  /\ UNCHANGED <<tasks, history, depends_on, queue, qa, board, resp, sess, signer, orch,
                 results, groups, tokens, batch, processed, advanced>>

\* the orchestrator marks w busy with t, whether or not w is in the registry
worker_set_busy(w, t) ==
  /\ registry' = set_busy(registry, w, t)
  /\ UNCHANGED <<tasks, history, depends_on, queue, qa, board, resp, sess, signer, orch,
                 results, groups, tokens, batch, processed, advanced>>

\* the orchestrator marks w idle, whether or not w is in the registry
worker_set_idle(w) ==
  /\ registry' = set_idle(registry, w)
  /\ UNCHANGED <<tasks, history, depends_on, queue, qa, board, resp, sess, signer, orch,
                 results, groups, tokens, batch, processed, advanced>>

\* the hash worker:{id} reaches the end of its ttl
expire_worker(w) ==
  /\ registry[w].exists /\ registry[w].ttl
  /\ registry' = [registry EXCEPT ![w] = NoWorker]
  /\ UNCHANGED <<tasks, history, depends_on, queue, qa, board, resp, sess, signer, orch,
                 results, groups, tokens, batch, processed, advanced>>

\* the key worker:token:{token} reaches the end of TOKEN_TTL
expire_token(tok) ==
  /\ tokens[tok] # None
  /\ tokens' = [tokens EXCEPT ![tok] = None]
  /\ UNCHANGED <<tasks, history, depends_on, queue, qa, board, resp, sess, signer, orch,
                 results, groups, registry, batch, processed, advanced>>

NextRegistry ==
  \/ RegisterWorker
  \/ \E w \in Workers : worker_heartbeat(w)
  \/ \E w \in Workers, t \in Tasks : worker_set_busy(w, t)
  \/ \E w \in Workers : worker_set_idle(w)
  \/ DeregisterWorker
  \/ \E w \in Workers : expire_worker(w)
  \/ \E tok \in Tokens : expire_token(tok)

\* the registry of a backend that no worker has registered with yet
SpecRegistry == Init /\ [][NextRegistry]_vars

\* one iteration of WorkerAgent.heartbeat_loop of the agent that registered
\* as w and holds TokenOf(w): the heartbeat request passes verify_worker_token
\* (401 when the token does not resolve, 403 when it resolves to another id),
\* then WorkerRegistry.heartbeat (404 when the hash is absent), and on 404 the
\* agent registers again.  The id and token of the new registration are
\* written w and TokenOf(w) again
heartbeat_loop(w) ==
  LET authenticated_worker_id == resolve_token(TokenOf(w), tokens)
  IN  /\ IF authenticated_worker_id = None
         THEN resp' = "401" /\ UNCHANGED <<registry, tokens>>
         ELSE IF authenticated_worker_id # w
         THEN resp' = "403" /\ UNCHANGED <<registry, tokens>>
         ELSE IF ~registry[w].exists
         THEN /\ resp' = "404"
              /\ registry' = register(registry, w)
              /\ tokens' = [tokens EXCEPT ![TokenOf(w)] = w]
         ELSE /\ resp' = "200"
              /\ registry' = heartbeat(registry, w)
              /\ UNCHANGED tokens
      /\ UNCHANGED <<tasks, history, depends_on, queue, qa, board, sess, signer, orch,
                     results, groups, batch, processed, advanced>>

\* two running agents that have registered, the orchestrator marking them
\* busy and idle, and the expiry of the registry's keys
SpecAgent ==
  /\ InitPM
  /\ [][\/ \E w \in Workers : heartbeat_loop(w)
        \/ \E w \in Workers, t \in Tasks : worker_set_busy(w, t)
        \/ \E w \in Workers : worker_set_idle(w)
        \/ \E w \in Workers : expire_worker(w)
        \/ \E tok \in Tokens : expire_token(tok)]_vars

(* ---------------------------------------------------------------------- *)
(* Task creation: POST /api/tasks and the finalize flow of a design       *)
(* ---------------------------------------------------------------------- *)

\* the row of a task id that no request has created yet
NoTask == [NewTask({}) EXCEPT !.status = None]

Created == {t \in Tasks : tasks[t].status # None}

\* detect_circular_dependency: the search from the ids in frontier along
\* the stored dependency rows, stopping at visited ids, for task_id
RECURSIVE dfs(_, _, _, _)
dfs(frontier, task_id, visited, graph) ==
  IF task_id \in frontier
  THEN TRUE
  ELSE LET fresh == frontier \ visited IN
       IF fresh = {}
       THEN FALSE
       ELSE dfs(UNION {graph[c] : c \in fresh \cap Tasks}, task_id, visited \cup fresh, graph)

detect_circular_dependency(task_id, deps, graph) == dfs(deps, task_id, {}, graph)

\* POST /api/tasks for the new row t with the requested depends_on
create_task(t, deps) ==
  /\ t \notin Created
  /\ IF deps # {} /\ deps \ Created # {}
     THEN resp' = "DependencyNotFound" /\ UNCHANGED <<tasks, depends_on>>
     ELSE IF deps # {} /\ detect_circular_dependency("temp", deps, depends_on)
     THEN resp' = "CircularDependency" /\ UNCHANGED <<tasks, depends_on>>
     ELSE /\ tasks' = [tasks EXCEPT ![t] = NewTask(deps)]
          /\ depends_on' = [depends_on EXCEPT ![t] = deps]
          /\ resp' = "ok"
  /\ UNCHANGED <<history, queue, qa, board, sess, signer, orch, pmvars>>

\* the longest task list of a design, and the indices its tasks may name
MaxPlanLen == 2
\* finalize_design: all_tasks are the rows created for the tasks of the plan
\* in order, indices[i] the depends_on_indices of its i-th task
finalize_design(all_tasks, indices) ==
  LET n == Len(all_tasks)
      dep_ids(i) == {all_tasks[idx + 1] : idx \in {x \in indices[i] : 0 <= x /\ x < n}}
      pos(t) == CHOOSE i \in 1..n : all_tasks[i] = t
      new == {all_tasks[i] : i \in 1..n}
  IN  /\ new \cap Created = {}
      /\ tasks' = [t \in Tasks |-> IF t \in new THEN NewTask(dep_ids(pos(t))) ELSE tasks[t]]
      /\ depends_on' = [t \in Tasks |-> IF t \in new THEN dep_ids(pos(t)) ELSE depends_on[t]]
      /\ resp' = "ok"
      /\ UNCHANGED <<history, queue, qa, board, sess, signer, orch, pmvars>>

Plans ==
  {p \in UNION {[1..n -> Tasks] : n \in 1..MaxPlanLen} :
     \A i, j \in 1..Len(p) : i # j => p[i] # p[j]}

InitGraph ==
  /\ tasks = [t \in Tasks |-> NoTask]
  /\ depends_on = [t \in Tasks |-> {}]
  /\ history = [t \in Tasks |-> <<>>]
  /\ queue = <<>>
  /\ qa = <<>>
  /\ board = EmptyBag
  /\ resp = "none"
  /\ sess = [r \in Requests |-> IdleSession]
  /\ orch = NoOrchestrator
  /\ signer = NoSigner
  /\ results = <<>>
  /\ groups = [s \in Streams |-> [last |-> 0, pel |-> {}]]
  /\ registry = [w \in Workers |-> NoWorker]
  /\ tokens = issued_tokens(registry)
  /\ batch = <<>>
  /\ processed = EmptyBag
  /\ advanced = {}

SpecGraph ==
  /\ InitGraph
  /\ [][\/ \E t \in Tasks, deps \in SUBSET Tasks : create_task(t, deps)
        \* the indices of a design's tasks run over 0..MaxPlanLen
        \/ \E p \in Plans : \E indices \in [1..Len(p) -> SUBSET (0..MaxPlanLen)] :
             finalize_design(p, indices)]_vars

(* ---------------------------------------------------------------------- *)
(* Properties                                                             *)
(* ---------------------------------------------------------------------- *)

\* the transition table as the specification lists it
DocumentedTransitions ==
  { <<"waiting", "ready">>, <<"waiting", "blocked">>, <<"ready", "queued">>,
    <<"queued", "in_progress">>, <<"in_progress", "review">>,
    <<"in_progress", "rejected">>, <<"review", "done">>, <<"review", "rejected">>,
    <<"done", "rejected">>, <<"rejected", "ready">>, <<"blocked", "ready">> }

\* the task t changes status in this step
StatusChanged(t) == tasks'[t].status # tasks[t].status

\* the task t enters `target` in this step
Enters(t, target) == tasks[t].status # target /\ tasks'[t].status = target

\* C1: a transition request succeeds exactly for the (from, to) pairs of the
\* documented table and is refused as InvalidTransition for every other pair
C1_TransitionTable ==
  [][\A t \in Tasks, to \in TaskStatus, r \in Reasons, ev \in ExpectedVersions :
       transition_task(t, to, r, ev) =>
         /\ (resp' = "ok") <=> (<<tasks[t].status, to>> \in DocumentedTransitions)
         /\ (resp' = "InvalidTransition") <=> (<<tasks[t].status, to>> \notin DocumentedTransitions)
    ]_vars

\* C2: in the step in which a task A becomes done, each dependent of A that
\* was waiting is ready if all its dependencies are done afterwards, and is
\* still waiting otherwise
C2_DoneCascade ==
  [][\A a \in Tasks : Enters(a, "done") =>
       \A d \in Tasks : (a \in depends_on[d] /\ tasks[d].status = "waiting") =>
         IF \A x \in depends_on[d] : tasks'[x].status = "done"
         THEN tasks'[d].status = "ready"
         ELSE tasks'[d].status = "waiting"
    ]_vars

\* a dependent with two dependencies was promoted by the cascade
C2_Witness ==
  \E d \in Tasks :
    /\ Cardinality(depends_on[d]) = 2
    /\ \A x \in depends_on[d] : tasks[x].status = "done"
    /\ tasks[d].status = "ready"
    /\ Len(history[d]) = 1
    /\ history[d][1].actor = "system"

\* C3: in the step in which a task A becomes rejected, every dependent of A
\* that was waiting becomes blocked
C3_RejectedCascade ==
  [][\A a \in Tasks : Enters(a, "rejected") =>
       \A d \in Tasks : (a \in depends_on[d] /\ tasks[d].status = "waiting") =>
         tasks'[d].status = "blocked"
    ]_vars

\* C4: every status change of a task raises its version by exactly 1 and
\* nothing else changes the version, so version = initial version + number
\* of status changes
C4_VersionPerChange ==
  [][\A t \in Tasks :
       IF StatusChanged(t)
       THEN tasks'[t].version = tasks[t].version + 1
       ELSE tasks'[t].version = tasks[t].version
    ]_vars

\* a task went through four transitions and a dependent was promoted by its cascade
C4_Witness ==
  \E t, d \in Tasks :
    /\ tasks[t].status = "done" /\ tasks[t].version = 5
    /\ t \in depends_on[d] /\ tasks[d].status = "ready" /\ tasks[d].version = 2

\* C5: the ledger of a task gets exactly one row per status change, carrying
\* the change's from, to, actor and reason, and no row otherwise
C5_LedgerPerChange ==
  [][ /\ \A t \in Tasks :
          IF StatusChanged(t)
          THEN /\ Len(history'[t]) = Len(history[t]) + 1
               /\ SubSeq(history'[t], 1, Len(history[t])) = history[t]
               /\ history'[t][Len(history'[t])].from_status = tasks[t].status
               /\ history'[t][Len(history'[t])].to_status = tasks'[t].status
          ELSE history'[t] = history[t]
      /\ \A t \in Tasks, to \in TaskStatus, r \in Reasons, ev \in ExpectedVersions :
          (resp' = "ok" /\ Enters(t, to) /\ transition_task(t, to, r, ev)) =>
            /\ history'[t][Len(history'[t])].actor = "user"
            /\ history'[t][Len(history'[t])].reason = r
            /\ \A d \in Tasks \ {t} : StatusChanged(d) =>
                 /\ history'[d][Len(history'[d])].actor = "system"
                 /\ history'[d][Len(history'[d])].reason =
                      "All dependencies met (triggered by task " \o t \o ")"
    ]_vars

\* a task with several ledger rows next to a dependent with a cascade row
C5_Witness ==
  \E t, d \in Tasks :
    /\ Len(history[t]) >= 4 /\ tasks[t].status = "done"
    /\ t \in depends_on[d]
    /\ Len(history[d]) >= 1 /\ history[d][1].actor = "system"

\* C6: a transition refused as InvalidTransition changes no task row, adds no
\* history row and publishes nothing on tasks:queue, tasks:qa or events:board
C6_RefusalChangesNothing ==
  [][resp' = "InvalidTransition" => UNCHANGED <<tasks, history, queue, qa, board>>]_vars

\* a transition was refused on a store that already holds transitions
C6_Witness ==
  /\ resp = "InvalidTransition"
  /\ \E t \in Tasks : tasks[t].version > 1
  /\ board # EmptyBag

\* C7: transitionTask and updateTask with an expected_version different from
\* the task's version fail with VersionConflict and change nothing; with the
\* current version they succeed
C7_VersionConflict ==
  [][ /\ \A t \in Tasks, to \in TaskStatus, r \in Reasons, ev \in ExpectedVersions :
          (transition_task(t, to, r, ev) /\ ev # Absent /\ ev # tasks[t].version) =>
            (resp' = "VersionConflict" /\ UNCHANGED <<tasks, history>>)
      /\ \A t \in Tasks, title \in Titles, ev \in ExpectedVersions :
          (update_task(t, title, ev) /\ ev # Absent /\ ev # tasks[t].version) =>
            (resp' = "VersionConflict" /\ UNCHANGED <<tasks, history>>)
    ]_vars

\* C8: when two writers have read the same task at the same version and each
\* applies a transition, the second write is refused as VersionConflict and
\* changes nothing, so every committed status change is one version increment
C8_ConcurrentWriters ==
  [][\A w \in Requests :
       (/\ sess[w].pc = "loaded"
        /\ sess'[w].pc = "idle"
        /\ sess[w].row.version # tasks[sess[w].task].version) =>
         (resp' \in {"VersionConflict", "InvalidTransition"} /\ UNCHANGED <<tasks, history>>)
    ]_vars /\ [](\A t \in Tasks : tasks[t].version = 1 + Len(history[t]))

\* the results loop processes Head(batch) in this step
ProcessesHead == batch # <<>> /\ processed' # processed

C10_SuccessDispatch ==
  [][(ProcessesHead /\ Head(batch).task_id.v \in Tasks) =>
       LET entry == results[Head(batch).message_id]
           t == entry.task_id
       IN  /\ (/\ entry.type = "execution"
                /\ entry.success = "true"
                /\ tasks[t].status = "in_progress"
                /\ \E w \in Workers : /\ w # entry.worker_id
                                       /\ registry[w].exists
                                       /\ registry[w].status = "idle") =>
                  (/\ tasks'[t].status = "review"
                   /\ \E w \in Workers : /\ w # entry.worker_id
                                          /\ registry[w].status = "idle"
                                          /\ tasks'[t].reviewer_id = w
                                          /\ registry'[w].status = "busy"
                                          /\ registry'[w].current_task_id = t)
           /\ (/\ entry.type = "qa"
                /\ entry.passed = "true"
                /\ tasks[t].status = "review") =>
                  tasks'[t].status = "done"
    ]_vars

\* some transition was made by hand
ManualSeen ==
  \E t \in Tasks : \E i \in 1..Len(history[t]) : history[t][i].actor = "user"

\* every result published so far reports success
AllSucceed ==
  \A i \in 1..Len(results) : results[i].success # "false" /\ results[i].passed # "false"

\* C11: in a fair run where nothing is done by hand and every execution and
\* every review succeeds, a task that is ready is eventually done
C11_ReadyLeadsToDone ==
  \A t \in Tasks :
    (tasks[t].status = "ready" /\ ~ManualSeen /\ AllSucceed)
      ~> (tasks[t].status = "done" \/ ManualSeen \/ ~AllSucceed)

\* a registered idle worker other than w exists
EligibleReviewer(w) ==
  \E r \in Workers : r # w /\ registry[r].exists /\ registry[r].status = "idle"

\* t is in_progress, an execution-success result for it has been processed
\* and a reviewer for it is available
AwaitsReviewer(t) ==
  /\ tasks[t].status = "in_progress"
  /\ \E id \in 1..Len(results) :
       /\ results[id].task_id = t
       /\ results[id].type = "execution"
       /\ results[id].success = "true"
       /\ CopiesIn(id, processed) > 0
       /\ EligibleReviewer(results[id].worker_id)

\* C12: an execution-success result processed for an in_progress task while
\* no registered idle worker other than the executor exists leaves the task,
\* its history and the busy workers as they are; and once such a worker is
\* idle the task is eventually in review
C12_NoReviewerRetry ==
  /\ [][(ProcessesHead /\ Head(batch).task_id.v \in Tasks) =>
          LET entry == results[Head(batch).message_id]
              t == entry.task_id
          IN  (/\ entry.type = "execution"
               /\ entry.success = "true"
               /\ tasks[t].status = "in_progress"
               /\ ~EligibleReviewer(entry.worker_id)) =>
                 (/\ tasks'[t] = tasks[t]
                  /\ history'[t] = history[t]
                  /\ \A w \in Workers :
                       registry'[w].status = "busy" => registry[w].status = "busy")
       ]_vars
  /\ \A t \in Tasks : AwaitsReviewer(t) ~> (tasks[t].status = "review")

\* C13: when the processing of a result message fails, the message is not
\* acknowledged: it is still pending for the PM after the step
C13_NoAckOnFailure ==
  [][(ProcessesHead /\ resp' = "InvalidTransition") =>
       [id |-> Head(batch).message_id, consumer |-> "pm-0"] \in groups'["tasks:results"].pel
    ]_vars

\* the ids a stream entry can have within the bounds
MessageIds == 1..MaxVersion

\* entry id of the stream is pending in its group and no consumer is working
\* on it: a worker's iteration acknowledges what it reads, and the PM works
\* on the messages of its batch
Orphaned(stream, id) ==
  /\ \E p \in groups[stream].pel : p.id = id
  /\ stream = "tasks:results" => \A i \in 1..Len(batch) : batch[i].message_id # id

\* C14: a message that was read in its group and is pending with no consumer
\* working on it is eventually delivered again, so it does not stay in that
\* condition
C14_PendingRedelivered ==
  \A stream \in Streams, id \in MessageIds :
    Orphaned(stream, id) ~> ~Orphaned(stream, id)

\* C15: every task that is done has all the tasks it depends on done
C15_DoneHasDoneDependencies ==
  \A t \in Tasks :
    tasks[t].status = "done" => \A d \in depends_on[t] : tasks[d].status = "done"

\* C16: a task is waiting exactly when some task it depends on is not done
\* and it is neither blocked nor rejected
C16_WaitingIffOpenDependency ==
  \A t \in Tasks :
    tasks[t].status = "waiting" <=>
      (/\ \E d \in depends_on[t] : tasks[d].status # "done"
       /\ tasks[t].status \notin {"blocked", "rejected"})

\* C18: when a task enters rejected, its error_message is the reason given
\* for that transition, the reason of the history row the transition wrote
C18_RejectedRecordsReason ==
  [][\A t \in Tasks :
       Enters(t, "rejected") =>
         tasks'[t].error_message = history'[t][Len(history'[t])].reason
    ]_vars

\* C17: when a task A enters done, every dependent of A that was blocked and
\* whose dependencies are all done after the step is ready, with its version
\* incremented by 1
C17_DonePromotesBlocked ==
  [][\A a \in Tasks :
       Enters(a, "done") =>
         \A d \in Tasks :
           (/\ a \in depends_on[d]
            /\ tasks[d].status = "blocked"
            /\ \A x \in depends_on[d] : tasks'[x].status = "done") =>
             (/\ tasks'[d].status = "ready"
              /\ tasks'[d].version = tasks[d].version + 1)
    ]_vars

\* a is ahead of b in the order of the claim: higher priority, or the same
\* priority and created earlier
Ahead(a, b) ==
  \/ PRIORITY_ORDER[tasks[a].priority] < PRIORITY_ORDER[tasks[b].priority]
  \/ /\ tasks[a].priority = tasks[b].priority
     /\ CreatedAt[a] < CreatedAt[b]

\* C19: a scheduling pass moves to queued exactly the ready tasks that have
\* fewer than min(R, I) ready tasks ahead of them, R the number of ready
\* tasks and I the number of registered idle workers, and leaves every other
\* task as it is; with I = 0 that is no task
C19_SchedulingPass ==
  [][\A scan \in ScanOrders :
       scheduling_loop(scan) =>
         LET ready == {t \in Tasks : tasks[t].status = "ready"}
             idle == {w \in Workers : registry[w].exists /\ registry[w].status = "idle"}
             n == Min(Cardinality(ready), Cardinality(idle))
             first == {t \in ready : Cardinality({u \in ready : Ahead(u, t)}) < n}
         IN  \A t \in Tasks :
               IF t \in first
               THEN tasks'[t].status = "queued"
               ELSE tasks'[t] = tasks[t]
    ]_vars

\* a pass has queued a task of higher priority and left ready a task that was
\* created before it, for lack of a second idle worker
C19_Witness ==
  \E a, b \in Tasks :
    /\ tasks[a].status = "queued"
    /\ history[a] # <<>>
    /\ history[a][Len(history[a])].reason = "Scheduled by PM"
    /\ tasks[b].status = "ready"
    /\ CreatedAt[b] < CreatedAt[a]
    /\ PRIORITY_ORDER[tasks[a].priority] < PRIORITY_ORDER[tasks[b].priority]

C21_DispatchTable ==
  [][(ProcessesHead /\ Head(batch).task_id.v \in Tasks) =>
       LET entry == results[Head(batch).message_id]
           t == entry.task_id
           w == entry.worker_id
           row == history'[t][Len(history'[t])]
       IN  /\ (/\ entry.type = "execution"
                /\ entry.success = "false"
                /\ tasks[t].status = "in_progress") =>
                  (/\ tasks'[t].status = "rejected"
                   /\ Len(history'[t]) = Len(history[t]) + 1
                   /\ row.reason = "Execution failed: " \o entry.error_message
                   /\ registry'[w].status = "idle")
           /\ (/\ entry.type = "qa"
                /\ entry.passed = "false"
                /\ tasks[t].status = "review") =>
                  (/\ tasks'[t].status = "rejected"
                   /\ Len(history'[t]) = Len(history[t]) + 1
                   /\ row.reason = "QA failed: " \o entry.feedback
                   /\ registry'[w].status = "idle")
           /\ (/\ entry.type = "qa"
                /\ entry.passed = "true"
                /\ tasks[t].status = "review") =>
                  (/\ tasks'[t].status = "done"
                   /\ registry'[w].status = "idle")
    ]_vars

\* the committed rows of task t: its version counts its history rows, and the
\* rows chain from the status it was created in to the status it has
HistoryMatchesStatus(t) ==
  LET h == history[t]
      created == NewTask(depends_on[t]).status
  IN  /\ tasks[t].version = 1 + Len(h)
      /\ \A i \in 1..Len(h) :
           /\ h[i].from_status = (IF i = 1 THEN created ELSE h[i - 1].to_status)
           /\ h[i].from_status # h[i].to_status
      /\ tasks[t].status = (IF h = <<>> THEN created ELSE h[Len(h)].to_status)

C23_OneBoardEventPerChange ==
  [][\A t \in Tasks :
       StatusChanged(t) =>
         LET added(e) == CopiesIn(e, board') - CopiesIn(e, board)
             mine == {e \in BagToSet(board') : e.task_id = t}
         IN  \E e \in mine :
               /\ e.event = "task_transition"
               /\ e.from_status = tasks[t].status
               /\ e.to_status = tasks'[t].status
               /\ added(e) = 1
               /\ \A o \in mine \ {e} : added(o) = 0
    ]_vars

\* the tasks reached from the tasks in `from` along depends_on
RECURSIVE DependsOnClosure(_)
DependsOnClosure(from) ==
  LET next == from \cup UNION {depends_on[t] : t \in from}
  IN  IF next = from THEN from ELSE DependsOnClosure(next)

\* C24: after any sequence of createTask and finalize requests no task
\* depends on itself, directly or through other tasks, and a request answered
\* with CircularDependency leaves the rows and the dependencies as they were
C24_NoDependencyCycle ==
  \A t \in Tasks : t \notin DependsOnClosure(depends_on[t])

\* C25: after stop() both loops return, so start() returns, and a loop
\* that finds the flag cleared at its condition begins no further iteration
C25_StopTerminates ==
  /\ (orch.start = "gathered" /\ ~orch.running) ~> (orch.start = "returned")
  /\ [][\A loop \in Loops :
          /\ (orch[loop] = "check" /\ ~orch.running) => orch'[loop] \in {"check", "returned"}
          /\ orch[loop] = "returned" => orch'[loop] = "returned"
       ]_vars

\* start() has returned after a stop() that came while the results loop was
\* in its for loop and the scheduling loop had queued a task
C25_Witness ==
  /\ orch.start = "returned"
  /\ ~orch.running
  /\ BagCardinality(processed) > 0
  /\ \E t \in Tasks : tasks[t].status = "queued"

\* the dependencies of t are all done
DependenciesDone(t) == \A d \in depends_on[t] : tasks[d].status = "done"

Acceptable(k, e, now, max_age) ==
  /\ EnvelopeFields \subseteq e.present
  /\ e.timestamp \in Nat
  /\ 0 <= now - e.timestamp /\ now - e.timestamp <= max_age
  /\ e.signature = HMAC(k, e.prompt, e.nonce, e.timestamp)

\* C28: verify accepts exactly the envelopes with all four keys, an age in
\* 0..max_age and the signature of their content under the verifier's secret;
\* what was signed with the same secret verifies within max_age; an accepted
\* envelope with one value changed, or under another secret, is not accepted;
\* extract_prompt returns a prompt only for an envelope that verify accepts
C28_VerifyAcceptsExactly ==
  /\ signer.verdict # "none" =>
       (signer.verdict = "True" <=>
          Acceptable(signer.secret, signer.env, signer.now, signer.max_age))
  /\ \A prompt \in Prompts, nonce \in Nonces, max_age \in MaxAges, at \in Times :
       (at <= signer.now /\ signer.now - at <= max_age) =>
         verify(signer.secret, sign(signer.secret, prompt, nonce, at), signer.now, max_age) = "True"
  /\ signer.verdict = "True" =>
       /\ \A field \in EnvelopeFields : \A value \in FieldValues(field) \ {signer.env[field]} :
            verify(signer.secret, [signer.env EXCEPT ![field] = value],
                   signer.now, signer.max_age) # "True"
       /\ \A k \in Secrets \ {signer.secret} :
            verify(k, signer.env, signer.now, signer.max_age) # "True"
  /\ signer.extracted \in Prompts =>
       /\ signer.extracted = signer.env.prompt
       /\ verify(signer.secret, signer.env, signer.now, DefaultMaxAge) = "True"

\* an envelope signed a second ago was verified with max_age 1 and accepted,
\* and extract_prompt returned its prompt
C28_Witness ==
  /\ signer.verdict = "True"
  /\ signer.max_age = 1
  /\ signer.now = signer.env.timestamp + 1
  /\ signer.extracted = signer.env.prompt

\* no verifier accepts the envelope e, with whatever secret and at whatever
\* time
FailsVerification(e) ==
  \A k \in Secrets, now \in Times : verify(k, e, now, DefaultMaxAge) # "True"

\* C27: a worker that reads a tasks:queue or tasks:qa message whose signed
\* prompt envelope fails verification publishes a failure result for the
\* task with the error 'prompt signature invalid'
C27_InvalidEnvelopeRefused ==
  [][Len(results') = Len(results) + 1 =>
       LET result == results'[Len(results')]
           read(stream) == groups'[stream].last # groups[stream].last
       IN  /\ (read("tasks:queue")
                 /\ FailsVerification(queue[groups'["tasks:queue"].last].signed_worker_prompt)) =>
                (/\ result.task_id = queue[groups'["tasks:queue"].last].task_id
                 /\ result.success = "false"
                 /\ result.error_message = "prompt signature invalid")
           /\ (read("tasks:qa")
                 /\ FailsVerification(qa[groups'["tasks:qa"].last].signed_qa_prompt)) =>
                (/\ result.task_id = qa[groups'["tasks:qa"].last].task_id
                 /\ result.passed = "false"
                 /\ result.error_message = "prompt signature invalid")
    ]_vars

\* list-all returns w
Listed(w) == \E scan \in ScanOrders : \E i \in 1..Len(get_all_workers(registry, scan)) :
               get_all_workers(registry, scan)[i] = w

\* list-all returns w after the step
ListedNext(w) == \E scan \in ScanOrders : \E i \in 1..Len(get_all_workers(registry', scan)) :
                   get_all_workers(registry', scan)[i] = w

\* C29: a worker appears in list-all only by registering and leaves it only
\* by expiring or being deregistered; set_busy or set_idle for an id whose
\* record is absent does not make the id appear
C29_ListAllIsRegistered ==
  [][\A w \in Workers :
       /\ (~Listed(w) /\ ListedNext(w)) => register_worker(w)
       /\ (Listed(w) /\ ~ListedNext(w)) => (deregister_worker(w) \/ expire_worker(w))
    ]_vars

\* C30: after deregister(id), called in whatever state of the registry,
\* get(id) is absent and the token issued to id resolves to no worker
C30_DeregisterRemovesToken ==
  [][\A w \in Workers :
       deregister_worker(w) =>
         /\ get_worker(registry', w) = NoWorker
         /\ resolve_token(TokenOf(w), tokens') = None
    ]_vars

\* C31: when the registry record of a running agent has expired, the agent's
\* next heartbeat re-registers it: after the heartbeat the agent is listed and
\* its token resolves to it
C31_ExpiredReRegisters ==
  [][\A w \in Workers :
       (~registry[w].exists /\ heartbeat_loop(w)) =>
         /\ ListedNext(w)
         /\ resolve_token(TokenOf(w), tokens') = w
    ]_vars

\* C33: a successful update of a task (title, description or priority of a
\* task in waiting or ready) strictly increases the task's version
C33_UpdateIncreasesVersion ==
  [][\A t \in Tasks, title \in Titles, ev \in ExpectedVersions :
       (update_task(t, title, ev) /\ resp' = "ok") =>
         tasks'[t].version > tasks[t].version
    ]_vars

\* C32: a failure of the git collaborator during the done or rejected side
\* effect does not leave transition(): the task reaches the new status with
\* its version increment and its history row, and its commit_hash is as it
\* was (empty after a failed commit, kept after a failed revert)
C32_GitFailureSwallowed ==
  [][\A t \in Tasks, new_status \in {"done", "rejected"}, reason \in Reasons,
        git \in {"RuntimeError", "OSError"} :
       (can_transition(tasks[t].status, new_status)
          /\ sm_transition(t, new_status, reason, git, NoKwargs)) =>
         /\ resp' = "ok"
         /\ tasks'[t].status = new_status
         /\ tasks'[t].version = tasks[t].version + 1
         /\ Len(history'[t]) = Len(history[t]) + 1
         /\ tasks'[t].commit_hash = tasks[t].commit_hash
    ]_vars

\* C34: after a rejected task is transitioned back to ready, its worker_id,
\* reviewer_id and error_message are empty, whatever they held (qa_result is
\* written by no code and is always empty)
C34_RetryClearsExecutionFields ==
  [][\A t \in Tasks, reason \in Reasons,
        worker_id \in {None, "w1"}, reviewer_id \in {None, "w2"} :
       (/\ tasks[t].status = "rejected"
        /\ sm_transition(t, "ready", reason, None, Kwargs(worker_id, reviewer_id))) =>
         /\ tasks'[t].worker_id = None
         /\ tasks'[t].reviewer_id = None
         /\ tasks'[t].error_message = None
    ]_vars

\* the step acknowledges the entry of `stream` that it consumes
AcknowledgesNext(stream) ==
  /\ groups'[stream].last = groups[stream].last + 1
  /\ \A p \in groups'[stream].pel : p.id # groups'[stream].last

\* the step appends to tasks:results a result of the given type, for the task
\* of message `msg` and with a worker's id
PublishesResult(msg, type) ==
  /\ Len(results') = Len(results) + 1
  /\ results'[Len(results')].type = type
  /\ results'[Len(results')].task_id = msg.task_id
  /\ results'[Len(results')].worker_id \in Workers

\* C35: a worker acknowledges a message it consumed from tasks:queue (resp.
\* tasks:qa) only when a result of type execution (resp. qa) for that task,
\* carrying the worker's id, has been appended to tasks:results
C35_AckOnlyAfterResult ==
  [][/\ AcknowledgesNext("tasks:queue") =>
          PublishesResult(queue[groups'["tasks:queue"].last], "execution")
     /\ AcknowledgesNext("tasks:qa") =>
          PublishesResult(qa[groups'["tasks:qa"].last], "qa")
    ]_vars

\* C36: the prompt a worker hands to the executor for a message of tasks:queue
\* (resp. tasks:qa) is the prompt of the task's stored worker_prompt (resp.
\* qa_prompt)
C36_ExecutorGetsStoredPrompt ==
  [][/\ (\E w \in Workers, outcome \in {"success", "failure", "raise"} : task_loop(w, outcome)) =>
          LET data == queue[groups'["tasks:queue"].last]
          IN  prompt_from(data, "worker_prompt") =
                [kind |-> "text", prompt |-> tasks[data.task_id].worker_prompt]
     /\ (\E w \in Workers, outcome \in {"passed", "failed", "raise"} : qa_loop(w, outcome)) =>
          LET data == qa[groups'["tasks:qa"].last]
          IN  prompt_from(data, "qa_prompt") =
                [kind |-> "text", prompt |-> tasks[data.task_id].qa_prompt]
    ]_vars

\* the committed history of task t has a row for a transition to to_status
CommittedTransition(t, to_status) ==
  \E k \in 1..Len(history[t]) : history[t][k].to_status = to_status

\* C37: a message for a task is on tasks:queue (resp. tasks:qa) only if a
\* transition of the task to queued (resp. review) was committed
C37_MessageOnlyIfCommitted ==
  /\ \A i \in 1..Len(queue) : CommittedTransition(queue[i].task_id, "queued")
  /\ \A i \in 1..Len(qa) : CommittedTransition(qa[i].task_id, "review")

\* the number of times task t has been queued: the attempt it is in
Attempt(t) == Cardinality({k \in 1..Len(history[t]) : history[t][k].to_status = "queued"})

\* C38: a result produced for an earlier attempt of a task changes nothing
\* once the task has been queued again.  In SpecStale every message of
\* tasks:queue is for t1 and every result is the worker's answer to one, in
\* the same order: entry id of tasks:results belongs to attempt id
C38_StaleResultHasNoEffect ==
  [][(/\ ProcessesHead
      /\ Head(batch).task_id.v = "t1"
      /\ Head(batch).message_id < Attempt("t1")) =>
        UNCHANGED <<tasks, history>>
    ]_vars

\* C39: the number of tasks that are queued or in progress never exceeds the
\* number of registered workers, however many scheduling passes have run
C39_NoOverQueue ==
  Cardinality({t \in Tasks : tasks[t].status \in {"queued", "in_progress"}})
    <= Cardinality({w \in Workers : registry[w].exists})

\* C40: a start while the project is marked running is refused with a
\* conflict and changes nothing, and while the loops of the project's present
\* orchestrator run, the orchestrator it replaced performs no scheduling pass
\* and processes no result
C40_OneOrchestratorActive ==
  [][ /\ (orch.entry /\ start_orchestration) => (resp' = "409" /\ orch' = orch)
      /\ (orch.entry /\ orch.start = "gathered")
            => /\ ~(\E scan \in ScanOrders : paused_scheduling_loop_body(scan))
               /\ ~(\E scan \in ScanOrders : paused_results_loop_body_process(scan)) ]_vars

====
